---- MODULE Spec2Model ----
(***************************************************************************)
(* A model of the snowflake-lsp language server: the per-document session  *)
(* context (session-context.ts, fed by parseUseCommands of sql-parser.ts   *)
(* through the document handlers of server.ts) and the catalog cache       *)
(* (schema-cache.ts).                                                      *)
(*                                                                         *)
(* Strings are sequences of one-character strings, so that toUpperCase,    *)
(* toLowerCase, split('.') and the regular expressions of the parser are   *)
(* computed character by character.                                        *)
(***************************************************************************)
EXTENDS Integers, Sequences, FiniteSets, TLC

VARIABLES
    init,               \* server.ts onInitialized: "none" | "created" | "ready"
    globalContext,      \* SessionContextManager.globalContext (NoGlobal = JS null)
    contexts,           \* SessionContextManager.contexts: uri -> SessionContext
    docs,               \* TextDocuments: uri -> text (sequence of lines) or Closed
    now,                \* the value Date.now() returns
    tables,             \* SchemaCache.tables (insertion-ordered map)
    columns,            \* SchemaCache.columns (insertion-ordered map)
    schemas,            \* SchemaCache.schemas
    tablesWithColumns,  \* SchemaCache.tablesWithColumns
    tableNameIndex,     \* SchemaCache.tableNameIndex (insertion-ordered map)
    columnNameIndex,    \* SchemaCache.columnNameIndex (insertion-ordered map)
    pending,            \* ensureColumnsLoaded calls suspended at `await fetcher`
    loadedSinceClear,   \* history: tables whose lazy load succeeded since clear()
    loadedEver,         \* history: tables whose lazy load ever succeeded
    lastFetched,        \* history: table -> result of its last successful fetch
    views,              \* SchemaCache.views (insertion-ordered map)
    warehouses,         \* SchemaCache.warehouses (insertion-ordered map)
    roles,              \* SchemaCache.roles (insertion-ordered map)
    users,              \* SchemaCache.users (insertion-ordered map)
    databases,          \* SchemaCache.databases (insertion-ordered map)
    queryHistory,       \* SchemaCache: the query history loaded at startup
    ddlCache,           \* SchemaCache.ddlCache: name -> [ddl, fetchedAt]
    lastCachedDDL,      \* history: name -> [ddl, fetchedAt] of its last cacheDDL
    op                  \* history: the operation performed last, with its inputs

sessionVars == <<init, globalContext, contexts, docs>>
cacheVars == <<tables, columns, schemas, tablesWithColumns, tableNameIndex,
               columnNameIndex>>
cacheHistVars == <<pending, loadedSinceClear, loadedEver, lastFetched>>
catalogVars == <<views, warehouses, roles, users, databases, queryHistory>>
ddlVars == <<ddlCache, lastCachedDDL>>
vars == <<init, globalContext, contexts, docs, now, tables, columns, schemas,
          tablesWithColumns, tableNameIndex, columnNameIndex, pending,
          loadedSinceClear, loadedEver, lastFetched, views, warehouses, roles,
          users, databases, queryHistory, ddlCache, lastCachedDDL, op>>

-----------------------------------------------------------------------------
(* Bounds of the model *)

\* most lines of a document
MaxLines == 2
\* longest list of qualified names under one key of a name index
MaxIndexLen == 2
\* most ensureColumnsLoaded calls suspended at the same time
MaxPending == 2

-----------------------------------------------------------------------------
(* Strings *)

LowerAlpha == <<"a","b","c","d","e","f","g","h","i","j","k","l","m",
                "n","o","p","q","r","s","t","u","v","w","x","y","z">>
UpperAlpha == <<"A","B","C","D","E","F","G","H","I","J","K","L","M",
                "N","O","P","Q","R","S","T","U","V","W","X","Y","Z">>
Digits == {"0","1","2","3","4","5","6","7","8","9"}

\* the upper-case letter of each lower-case letter, and the converse
UpperOf ==
    [c \in {LowerAlpha[i] : i \in 1..26} |->
        UpperAlpha[CHOOSE i \in 1..26 : LowerAlpha[i] = c]]
LowerOf ==
    [c \in {UpperAlpha[i] : i \in 1..26} |->
        LowerAlpha[CHOOSE i \in 1..26 : UpperAlpha[i] = c]]

ToUpperChar(c) == IF c \in DOMAIN UpperOf THEN UpperOf[c] ELSE c

ToLowerChar(c) == IF c \in DOMAIN LowerOf THEN LowerOf[c] ELSE c

\* String.prototype.toUpperCase
ToUpperCase(s) == [i \in 1..Len(s) |-> ToUpperChar(s[i])]

\* String.prototype.toLowerCase
ToLowerCase(s) == [i \in 1..Len(s) |-> ToLowerChar(s[i])]

\* the class \w of a regular expression
IsWordChar(c) ==
    \/ \E i \in 1..26 : LowerAlpha[i] = c \/ UpperAlpha[i] = c
    \/ c \in Digits
    \/ c = "_"

\* the class [\w.]
IsWordOrDot(c) == IsWordChar(c) \/ c = "."

\* the class \s
IsSpace(c) == c \in {" ", "\t", "\n"}

\* membership of a character in a class of a pattern
InClass(c, class) ==
    CASE class = "s" -> IsSpace(c)
      [] class = "w" -> IsWordChar(c)
      [] class = "w." -> IsWordOrDot(c)

\* String.prototype.split('.')
RECURSIVE SplitDot(_)
SplitDot(s) ==
    IF \E i \in 1..Len(s) : s[i] = "."
    THEN LET i == CHOOSE k \in 1..Len(s) :
                      s[k] = "." /\ \A j \in 1..(k - 1) : s[j] # "."
         IN  <<SubSeq(s, 1, i - 1)>> \o SplitDot(SubSeq(s, i + 1, Len(s)))
    ELSE <<s>>

\* Array.prototype.join('.')
RECURSIVE JoinDot(_)
JoinDot(parts) ==
    IF Len(parts) = 0 THEN <<>>
    ELSE IF Len(parts) = 1 THEN parts[1]
    ELSE parts[1] \o <<".">> \o JoinDot(Tail(parts))

\* String.prototype.endsWith
EndsWith(s, suffix) ==
    /\ Len(suffix) <= Len(s)
    /\ SubSeq(s, Len(s) - Len(suffix) + 1, Len(s)) = suffix

\* String.prototype.startsWith
StartsWith(s, prefix) ==
    /\ Len(prefix) <= Len(s)
    /\ SubSeq(s, 1, Len(prefix)) = prefix

\* String.prototype.includes
Includes(s, part) ==
    \E i \in 1..(Len(s) + 1) :
        /\ i + Len(part) - 1 <= Len(s)
        /\ SubSeq(s, i, i + Len(part) - 1) = part

-----------------------------------------------------------------------------
(* Regular expressions of parseUseCommands *)

\* the literal lit (given in upper case) matches s at position i under flag i
MatchLit(s, i, lit) ==
    /\ i + Len(lit) - 1 <= Len(s)
    /\ \A k \in 1..Len(lit) : ToUpperChar(s[i + k - 1]) = lit[k]

\* the position after the longest run of characters of a class that starts at i
SpanEnd(s, i, class) ==
    CHOOSE j \in i..(Len(s) + 1) :
        /\ \A k \in i..(j - 1) : InClass(s[k], class)
        /\ j = Len(s) + 1 \/ ~InClass(s[j], class)

KwUse == <<"U","S","E">>
KwDatabase == <<"D","A","T","A","B","A","S","E">>
KwSchema == <<"S","C","H","E","M","A">>
KwWarehouse == <<"W","A","R","E","H","O","U","S","E">>
KwRole == <<"R","O","L","E">>

\* /USE\s+<kw>\s+(<class>+)/i matches s at position i
MatchUseKwAt(s, i, kw, class) ==
    /\ MatchLit(s, i, KwUse)
    /\ LET e1 == SpanEnd(s, i + 3, "s")
       IN  /\ e1 > i + 3
           /\ MatchLit(s, e1, kw)
           /\ LET p2 == e1 + Len(kw)
                  e2 == SpanEnd(s, p2, "s")
              IN  /\ e2 > p2
                  /\ SpanEnd(s, e2, class) > e2

\* the group captured by /USE\s+<kw>\s+(<class>+)/i at position i
CaptureUseKwAt(s, i, kw, class) ==
    LET e1 == SpanEnd(s, i + 3, "s")
        e2 == SpanEnd(s, e1 + Len(kw), "s")
    IN  SubSeq(s, e2, SpanEnd(s, e2, class) - 1)

\* line.match(/USE\s+<kw>\s+(<class>+)/i): <<>> for null, else <<group 1>> of
\* the leftmost match
MatchUseKw(s, kw, class) ==
    IF \E i \in 1..Len(s) : MatchUseKwAt(s, i, kw, class)
    THEN LET i == CHOOSE k \in 1..Len(s) :
                      /\ MatchUseKwAt(s, k, kw, class)
                      /\ \A j \in 1..(k - 1) : ~MatchUseKwAt(s, j, kw, class)
         IN  <<CaptureUseKwAt(s, i, kw, class)>>
    ELSE <<>>

\* /USE\s+(\w+)/i matches s at position i
MatchUseShortAt(s, i) ==
    /\ MatchLit(s, i, KwUse)
    /\ LET e1 == SpanEnd(s, i + 3, "s")
       IN  e1 > i + 3 /\ SpanEnd(s, e1, "w") > e1

\* line.match(/USE\s+(\w+)/i)
MatchUseShort(s) ==
    IF \E i \in 1..Len(s) : MatchUseShortAt(s, i)
    THEN LET i == CHOOSE k \in 1..Len(s) :
                      /\ MatchUseShortAt(s, k)
                      /\ \A j \in 1..(k - 1) : ~MatchUseShortAt(s, j)
             e1 == SpanEnd(s, i + 3, "s")
         IN  <<SubSeq(s, e1, SpanEnd(s, e1, "w") - 1)>>
    ELSE <<>>

\* /^\s*--/.test(line) and /^\s*\/\*/.test(line)
StartsComment(s, c1, c2) ==
    LET e == SpanEnd(s, 1, "s")
    IN  e + 1 <= Len(s) /\ s[e] = c1 /\ s[e + 1] = c2

-----------------------------------------------------------------------------
(* parseUseCommands (sql-parser.ts) *)

Command(type, value, line) == [type |-> type, value |-> value, line |-> line]

\* a faulty variant of the qualified case that pushes the schema command first
QualifiedSchemaFirst(parts, i) ==
    <<Command("SCHEMA", parts[2], i), Command("DATABASE", parts[1], i)>>

\* the two pushes for `USE SCHEMA <db>.<schema>`
QualifiedSchemaCommands(parts, i) ==
    <<Command("DATABASE", parts[1], i), Command("SCHEMA", parts[2], i)>>

\* the commands the loop body of parseUseCommands pushes for lines[i] = line
ParseLine(line, i) ==
    LET useDb == MatchUseKw(line, KwDatabase, "w")
        useSchema == MatchUseKw(line, KwSchema, "w.")
        useWh == MatchUseKw(line, KwWarehouse, "w")
        useRole == MatchUseKw(line, KwRole, "w")
        useShort == MatchUseShort(line)
    IN  IF StartsComment(line, "-", "-") THEN <<>>
        ELSE IF StartsComment(line, "/", "*") THEN <<>>
        ELSE IF useDb # <<>> THEN <<Command("DATABASE", useDb[1], i)>>
        ELSE IF useSchema # <<>> THEN
            LET parts == SplitDot(useSchema[1])
            IN  IF Len(parts) = 2
                THEN QualifiedSchemaCommands(parts, i)
                ELSE <<Command("SCHEMA", useSchema[1], i)>>
        ELSE IF useWh # <<>> THEN <<Command("WAREHOUSE", useWh[1], i)>>
        ELSE IF useRole # <<>> THEN <<Command("ROLE", useRole[1], i)>>
        ELSE IF useShort # <<>> THEN <<Command("DATABASE", useShort[1], i)>>
        ELSE <<>>

-----------------------------------------------------------------------------
(* SessionContextManager (session-context.ts) *)

\* a nullable string: Null, or Some(s) for the string s
Null == <<>>
Some(s) == <<s>>

\* JS `a || b` on nullable strings: the empty string is falsy
OrElse(a, b) == IF a = Null \/ a = Some(<<>>) THEN b ELSE a

NoGlobal == [set |-> FALSE]

GlobalRecord(db, sc, wh, ro, t) ==
    [set |-> TRUE, database |-> db, schema |-> sc, warehouse |-> wh,
     role |-> ro, lastUpdated |-> t]

\* this.globalContext?.<field> || null
GlobalField(g, f) == IF g.set THEN OrElse(g[f], Null) ELSE Null

\* the record getContext creates for an unseen uri
NewContext(g, uri, t) ==
    [uri |-> uri,
     database |-> GlobalField(g, "database"),
     schema |-> GlobalField(g, "schema"),
     warehouse |-> GlobalField(g, "warehouse"),
     role |-> GlobalField(g, "role"),
     lastUpdated |-> t]

\* the record getContext(uri) returns
GetContextRecord(ctxs, g, uri, t) ==
    IF uri \in DOMAIN ctxs THEN ctxs[uri] ELSE NewContext(g, uri, t)

\* a faulty variant of getContext that seeds the record on every call
GetContextReseeds(ctxs, g, uri, t) ==
    [u \in DOMAIN ctxs \cup {uri} |->
        IF u = uri THEN NewContext(g, uri, t) ELSE ctxs[u]]

\* the map after getContext(uri)
GetContext(ctxs, g, uri, t) ==
    IF uri \in DOMAIN ctxs THEN ctxs
    ELSE [u \in DOMAIN ctxs \cup {uri} |->
            IF u = uri THEN NewContext(g, uri, t) ELSE ctxs[u]]

\* a faulty variant of the DATABASE case that keeps schema when the database
\* commanded is the one already selected
ApplyDatabaseKeepSame(ctx, cmd) ==
    IF ctx.database = Some(ToUpperCase(cmd.value))
    THEN ctx
    ELSE [ctx EXCEPT !.database = Some(ToUpperCase(cmd.value)), !.schema = Null]

\* a faulty variant of the DATABASE case that leaves schema alone
ApplyDatabaseNoReset(ctx, cmd) ==
    [ctx EXCEPT !.database = Some(ToUpperCase(cmd.value))]

\* case UseCommandType.DATABASE of updateContext
ApplyDatabase(ctx, cmd) ==
    [ctx EXCEPT !.database = Some(ToUpperCase(cmd.value)), !.schema = Null]

\* a faulty variant of the SCHEMA case without its break: it falls through to the
\* WAREHOUSE case
ApplySchemaFallThrough(ctx, cmd) ==
    [ctx EXCEPT !.schema = Some(ToUpperCase(cmd.value)),
                !.warehouse = Some(ToUpperCase(cmd.value))]

\* case UseCommandType.SCHEMA of updateContext
ApplySchema(ctx, cmd) == [ctx EXCEPT !.schema = Some(ToUpperCase(cmd.value))]

\* the body of the switch of updateContext
ApplyCommand(ctx, cmd) ==
    CASE cmd.type = "DATABASE" -> ApplyDatabase(ctx, cmd)
      [] cmd.type = "SCHEMA" -> ApplySchema(ctx, cmd)
      [] cmd.type = "WAREHOUSE" ->
            [ctx EXCEPT !.warehouse = Some(ToUpperCase(cmd.value))]
      [] cmd.type = "ROLE" -> [ctx EXCEPT !.role = Some(ToUpperCase(cmd.value))]
      [] OTHER -> ctx

\* the loop of updateContext
RECURSIVE ApplyCommands(_, _)
ApplyCommands(ctx, cmds) ==
    IF cmds = <<>> THEN ctx
    ELSE ApplyCommands(ApplyCommand(ctx, Head(cmds)), Tail(cmds))

\* the map after updateContext(uri, cmds) at time t
UpdateContext(ctxs, g, uri, cmds, t) ==
    LET context == ApplyCommands(GetContextRecord(ctxs, g, uri, t), cmds)
    IN  [u \in DOMAIN ctxs \cup {uri} |->
            IF u = uri THEN [context EXCEPT !.lastUpdated = t] ELSE ctxs[u]]

\* a faulty variant of clearContext that empties the whole map
ClearContextAll(ctxs, uri) == [u \in {} |-> ctxs[u]]

\* the map after clearContext(uri)
ClearContext(ctxs, uri) == [u \in DOMAIN ctxs \ {uri} |-> ctxs[u]]

\* the four context fields of a record
Fields(ctx) == <<ctx.database, ctx.schema, ctx.warehouse, ctx.role>>

-----------------------------------------------------------------------------
(* Inputs of the session model *)

Uris == {"a.sql"}

Closed == <<>>

LitUse == <<"U","S","E"," ">>
LitUseSchema == <<"U","S","E"," ","S","C","H","E","M","A"," ">>

\* the line `USE SCHEMA <db>.<schema>`
UseSchemaLine(db, sc) == LitUseSchema \o db \o <<".">> \o sc

\* the (db, schema) pairs of the qualified lines
QualifiedPairs == {<<<<"p","r">>, <<"A","n">>>>}

LineUseDatabase == LitUse \o <<"D","A","T","A","B","A","S","E"," ","d","b">>
LineUseSchema == <<"u","s","e"," ","s","c","h","e","m","a"," ","S","c">>
LineUseWarehouse ==
    LitUse \o <<"W","A","R","E","H","O","U","S","E"," ","w","h">>
LineUseRole == LitUse \o <<"R","O","L","E"," "," ","r","o",";">>
LineEmpty == <<>>

Lines ==
    {LineUseDatabase, LineUseSchema, LineUseWarehouse, LineUseRole, LineEmpty}
    \cup {UseSchemaLine(p[1], p[2]) : p \in QualifiedPairs}

\* the line `USE <name>`
ShorthandLine(name) == LitUse \o name

\* the line `USE <keyword> <name>`
KeywordLine(kw, name) == LitUse \o kw \o <<" ">> \o name

\* the line `USE <keyword>`, as it stands while the statement is typed
BareKeywordLine(kw) == LitUse \o kw

\* the names of the shorthand lines and the four keywords
ShortNames == {<<"m","y","_","d","b">>, <<"D","b","2">>}
Keywords == {KwDatabase, KwSchema, KwWarehouse, KwRole}

LineComment == <<"-","-"," ">> \o ShorthandLine(<<"x">>)

\* the lines of the documents that use the shorthand
ShorthandLines ==
    {ShorthandLine(n) : n \in ShortNames}
    \cup {KeywordLine(kw, <<"n","1">>) : kw \in Keywords}
    \cup {BareKeywordLine(kw) : kw \in Keywords}
    \cup {LineComment, LineEmpty}

\* the documents: text.split('\n') has at least one line
Texts == UNION {[1..n -> Lines] : n \in 1..MaxLines}

\* the loop body of parseUseCommands on each line of the inputs at each line
\* number, computed once
ParsedLines ==
    [l \in Lines \cup ShorthandLines, i \in 0..(MaxLines - 1) |->
        ParseLine(l, i)]

\* parseUseCommands(text), text given as text.split('\n'); line numbers from 0
RECURSIVE ParseFrom(_, _)
ParseFrom(lines, i) ==
    IF i > Len(lines) THEN <<>>
    ELSE ParsedLines[lines[i], i - 1] \o ParseFrom(lines, i + 1)

ParseUseCommands(lines) == ParseFrom(lines, 1)

\* text with line i replaced by l, with l inserted before line i, without line i
ReplaceLine(text, i, l) == [text EXCEPT ![i] = l]
InsertLine(text, i, l) ==
    SubSeq(text, 1, i - 1) \o <<l>> \o SubSeq(text, i, Len(text))
DeleteLine(text, i) == SubSeq(text, 1, i - 1) \o SubSeq(text, i + 1, Len(text))

\* the documents one change notification makes of text: the same content
\* (TextDocuments raises onDidChangeContent on open too), or one line replaced,
\* inserted or deleted
Edits(text) ==
    {text}
    \cup {ReplaceLine(text, i, l) : i \in 1..Len(text), l \in Lines}
    \cup {InsertLine(text, i, l) :
             i \in {k \in 1..(Len(text) + 1) : Len(text) < MaxLines},
             l \in Lines}
    \cup {DeleteLine(text, i) : i \in {k \in 1..Len(text) : Len(text) > 1}}


\* a row of the CURRENT_DATABASE() query, under upper- and lower-case keys
Row(udb, usc, uwh, uro, ldb) ==
    [CURRENT_DATABASE |-> udb, CURRENT_SCHEMA |-> usc,
     CURRENT_WAREHOUSE |-> uwh, CURRENT_ROLE |-> uro,
     current_database |-> ldb, current_schema |-> Null,
     current_warehouse |-> Null, current_role |-> Null]

\* what executeQuery may do: throw, or return these result lists
QueryOutcomes ==
    {[throws |-> TRUE, rows |-> <<>>],
     [throws |-> FALSE, rows |-> <<>>],
     [throws |-> FALSE,
      rows |-> <<Row(Null, Some(<<"G","s">>), Some(<<>>), Null,
                     Some(<<"g","d">>))>>]}

-----------------------------------------------------------------------------
(* The session: onInitialized and the document handlers (server.ts) *)

SessionOp(kind, uri, cmds, applied, repeat) ==
    [kind |-> kind, uri |-> uri, cmds |-> cmds, applied |-> applied,
     repeat |-> repeat]

NoOp == [kind |-> "none"]

\* this operation re-applies the commands the operation before it applied to
\* the same document
Reapplies(uri, cmds) ==
    /\ op.kind \in {"didOpen", "didChange"}
    /\ op.applied
    /\ op.uri = uri
    /\ op.cmds = cmds

\* a faulty variant of initializeGlobalContext whose catch block leaves the
\* global record as it was
InitializedGlobalNoFallback(g, outcome, t) ==
    IF outcome.throws
    THEN g
    ELSE IF Len(outcome.rows) > 0
    THEN LET row == outcome.rows[1]
         IN  GlobalRecord(
                OrElse(row.CURRENT_DATABASE, OrElse(row.current_database, Null)),
                OrElse(row.CURRENT_SCHEMA, OrElse(row.current_schema, Null)),
                OrElse(row.CURRENT_WAREHOUSE, OrElse(row.current_warehouse, Null)),
                OrElse(row.CURRENT_ROLE, OrElse(row.current_role, Null)),
                t)
    ELSE g

\* the global record initializeGlobalContext leaves
InitializedGlobal(g, outcome, t) ==
    IF outcome.throws
    THEN GlobalRecord(Null, Null, Null, Null, t)
    ELSE IF Len(outcome.rows) > 0
    THEN LET row == outcome.rows[1]
         IN  GlobalRecord(
                OrElse(row.CURRENT_DATABASE, OrElse(row.current_database, Null)),
                OrElse(row.CURRENT_SCHEMA, OrElse(row.current_schema, Null)),
                OrElse(row.CURRENT_WAREHOUSE, OrElse(row.current_warehouse, Null)),
                OrElse(row.CURRENT_ROLE, OrElse(row.current_role, Null)),
                t)
    ELSE g

\* onInitialized up to its await of initializeGlobalContext
CreateManager ==
    /\ init = "none"
    /\ init' = "created"
    /\ op' = SessionOp("createManager", "", <<>>, FALSE, FALSE)
    /\ UNCHANGED <<globalContext, contexts, docs, now>>
    /\ UNCHANGED <<cacheVars, cacheHistVars, catalogVars, ddlVars>>

\* initializeGlobalContext returns and onInitialized sets isInitialized
InitializeGlobalContext(outcome) ==
    /\ init = "created"
    /\ init' = "ready"
    /\ globalContext' = InitializedGlobal(globalContext, outcome, now)
    /\ op' = [kind |-> "globalContext", uri |-> "", cmds |-> <<>>,
              applied |-> FALSE, repeat |-> FALSE, threw |-> outcome.throws]
    /\ UNCHANGED <<contexts, docs, now>>
    /\ UNCHANGED <<cacheVars, cacheHistVars, catalogVars, ddlVars>>

\* documents.onDidOpen
DidOpen(uri, text) ==
    /\ docs[uri] = Closed
    /\ docs' = [docs EXCEPT ![uri] = text]
    /\ LET useCommands == ParseUseCommands(text)
       IN  IF init # "none"
           THEN /\ contexts' = UpdateContext(contexts, globalContext, uri,
                                             useCommands, now)
                /\ op' = SessionOp("didOpen", uri, useCommands, TRUE,
                                   Reapplies(uri, useCommands))
           ELSE /\ UNCHANGED contexts
                /\ op' = SessionOp("didOpen", uri, useCommands, FALSE, FALSE)
    /\ UNCHANGED <<init, globalContext, now>>
    /\ UNCHANGED <<cacheVars, cacheHistVars, catalogVars, ddlVars>>

\* documents.onDidChangeContent
DidChangeContent(uri, text) ==
    /\ docs[uri] # Closed
    /\ docs' = [docs EXCEPT ![uri] = text]
    /\ IF init # "none"
       THEN LET useCommands == ParseUseCommands(text)
            IN  /\ contexts' = UpdateContext(contexts, globalContext, uri,
                                             useCommands, now)
                /\ op' = SessionOp("didChange", uri, useCommands, TRUE,
                                   Reapplies(uri, useCommands))
       ELSE /\ UNCHANGED contexts
            /\ op' = SessionOp("didChange", uri, <<>>, FALSE, FALSE)
    /\ UNCHANGED <<init, globalContext, now>>
    /\ UNCHANGED <<cacheVars, cacheHistVars, catalogVars, ddlVars>>

\* documents.onDidClose
DidClose(uri) ==
    /\ docs[uri] # Closed
    /\ docs' = [docs EXCEPT ![uri] = Closed]
    /\ contexts' = IF init # "none" THEN ClearContext(contexts, uri) ELSE contexts
    /\ op' = SessionOp("didClose", uri, <<>>, FALSE, FALSE)
    /\ UNCHANGED <<init, globalContext, now>>
    /\ UNCHANGED <<cacheVars, cacheHistVars, catalogVars, ddlVars>>

\* connection.onCompletion up to provideCompletions
Completion(uri) ==
    /\ init = "ready"
    /\ docs[uri] # Closed
    /\ contexts' = GetContext(contexts, globalContext, uri, now)
    /\ op' = SessionOp("completion", uri, <<>>, FALSE, FALSE)
    /\ UNCHANGED <<init, globalContext, docs, now>>
    /\ UNCHANGED <<cacheVars, cacheHistVars, catalogVars, ddlVars>>

EmptyMap == <<>>

SessionInit ==
    /\ init = "none"
    /\ globalContext = NoGlobal
    /\ contexts = [u \in {} |-> NoOp]
    /\ docs = [u \in Uris |-> Closed]
    /\ now = 0
    /\ op = NoOp

CacheIdle ==
    /\ tables = EmptyMap
    /\ columns = EmptyMap
    /\ schemas = {}
    /\ tablesWithColumns = {}
    /\ tableNameIndex = EmptyMap
    /\ columnNameIndex = EmptyMap
    /\ pending = <<>>
    /\ loadedSinceClear = {}
    /\ loadedEver = {}
    /\ lastFetched = EmptyMap

CatalogIdle ==
    /\ views = EmptyMap
    /\ warehouses = EmptyMap
    /\ roles = EmptyMap
    /\ users = EmptyMap
    /\ databases = EmptyMap
    /\ queryHistory = <<>>
    /\ ddlCache = EmptyMap
    /\ lastCachedDDL = EmptyMap

Init == SessionInit /\ CacheIdle /\ CatalogIdle

Next ==
    \/ CreateManager
    \/ \E outcome \in QueryOutcomes : InitializeGlobalContext(outcome)
    \/ \E uri \in Uris, text \in Texts : DidOpen(uri, text)
    \/ \E uri \in Uris : \E text \in Edits(docs[uri]) :
          DidChangeContent(uri, text)
    \/ \E uri \in Uris : DidClose(uri)
    \/ \E uri \in Uris : Completion(uri)

Spec == Init /\ [][Next]_vars

-----------------------------------------------------------------------------
(* Claims about the session context *)

UpdateKinds == {"didOpen", "didChange"}

\* the last operation called updateContext(op.uri, op.cmds)
Updated == op.kind \in UpdateKinds /\ op.applied

\* the index of the last command of cmds whose type is in types, 0 if none
LastOf(cmds, types) ==
    IF \E k \in 1..Len(cmds) : cmds[k].type \in types
    THEN CHOOSE k \in 1..Len(cmds) :
            /\ cmds[k].type \in types
            /\ \A j \in (k + 1)..Len(cmds) : cmds[j].type \notin types
    ELSE 0

Types(cmds) == [k \in 1..Len(cmds) |-> cmds[k].type]

\* C1: after updateContext, when the last DATABASE command of the sequence
\* has value x and no SCHEMA command follows it, the record has database =
\* upper-case(x) and schema = null, whatever the record held before; so
\* DATABASE X, SCHEMA Y, DATABASE Z ends with database = Z and schema = null.
C1_DatabaseResetsSchema ==
    Updated =>
        LET k == LastOf(op.cmds, {"DATABASE"})
        IN  k > 0 =>
              /\ contexts[op.uri].database = Some(ToUpperCase(op.cmds[k].value))
              /\ LastOf(op.cmds, {"SCHEMA"}) < k =>
                    contexts[op.uri].schema = Null

\* C1 happens: DATABASE, SCHEMA, DATABASE applied in one call
C1_Witness ==
    /\ Updated
    /\ Types(op.cmds) = <<"DATABASE", "SCHEMA", "DATABASE">>
    /\ op.cmds[1].value # op.cmds[3].value
    /\ contexts[op.uri].database = Some(ToUpperCase(op.cmds[3].value))
    /\ contexts[op.uri].schema = Null

\* C2: the line `USE SCHEMA <db>.<schema>` parses to exactly DATABASE(db)
\* then SCHEMA(schema), and a document ending with that line leaves its
\* record with database = upper-case(db) and schema = upper-case(schema).
C2_QualifiedSchema ==
    \A p \in QualifiedPairs :
        /\ \A i \in 0..(MaxLines - 1) :
              ParseLine(UseSchemaLine(p[1], p[2]), i) =
                  <<Command("DATABASE", p[1], i), Command("SCHEMA", p[2], i)>>
        /\ \A u \in Uris :
              (/\ Updated
               /\ op.uri = u
               /\ docs[u][Len(docs[u])] = UseSchemaLine(p[1], p[2]))
              => /\ contexts[u].database = Some(ToUpperCase(p[1]))
                 /\ contexts[u].schema = Some(ToUpperCase(p[2]))

\* C2 happens: a qualified line was applied to a record that had another
\* database and schema selected by the line before it
C2_Witness ==
    \E p \in QualifiedPairs :
        /\ Updated
        /\ Len(docs[op.uri]) = 2
        /\ docs[op.uri][1] = LineUseSchema
        /\ docs[op.uri][2] = UseSchemaLine(p[1], p[2])
        /\ contexts[op.uri].schema = Some(ToUpperCase(p[2]))
        /\ ToUpperCase(p[2]) # p[2]

\* the record updateContext starts from
Before(uri) == GetContextRecord(contexts, globalContext, uri, now)

\* C3: updateContext leaves database as it was unless a DATABASE command is
\* applied, schema unless a DATABASE or SCHEMA command is, warehouse unless a
\* WAREHOUSE command is and role unless a ROLE command is; so a SCHEMA, a
\* WAREHOUSE or a ROLE command changes its own field only.
C3_Frame ==
    [][(op'.kind \in UpdateKinds /\ op'.applied) =>
         LET u == op'.uri
             types == {op'.cmds[k].type : k \in 1..Len(op'.cmds)}
         IN  /\ contexts'[u].uri = u
             /\ "DATABASE" \notin types =>
                   contexts'[u].database = Before(u).database
             /\ types \cap {"DATABASE", "SCHEMA"} = {} =>
                   contexts'[u].schema = Before(u).schema
             /\ "WAREHOUSE" \notin types =>
                   contexts'[u].warehouse = Before(u).warehouse
             /\ "ROLE" \notin types =>
                   contexts'[u].role = Before(u).role]_vars

\* C3 happens: a single SCHEMA command applied to a record whose database,
\* warehouse and role are set
C3_Witness ==
    /\ Updated
    /\ Types(op.cmds) = <<"SCHEMA">>
    /\ contexts[op.uri].database # Null
    /\ contexts[op.uri].warehouse # Null
    /\ contexts[op.uri].role # Null
    /\ contexts[op.uri].schema = Some(ToUpperCase(op.cmds[1].value))

\* C4: updateContext applied again with the commands it was applied with
\* just before leaves database, schema, warehouse and role as they are.
C4_Idempotent ==
    [][(op'.kind \in UpdateKinds /\ op'.applied /\ op'.repeat) =>
         Fields(contexts'[op'.uri]) = Fields(contexts[op'.uri])]_vars

\* C4 happens: a sequence with a schema and then a database command was
\* applied twice in a row
C4_Witness ==
    /\ Updated
    /\ op.repeat
    /\ Types(op.cmds) = <<"SCHEMA", "DATABASE">>

\* C5: after an open or change event handled with the session manager in
\* place, the record of the document equals the commands of its current text
\* applied to a record seeded from the global record.
C5_ContextFollowsText ==
    Updated =>
        Fields(contexts[op.uri]) =
            Fields(ApplyCommands(NewContext(globalContext, op.uri, now),
                                 ParseUseCommands(docs[op.uri])))

-----------------------------------------------------------------------------
(* SchemaCache (schema-cache.ts) *)

\* a Map, in insertion order: a sequence of [key, value] entries
MapHas(m, k) == \E i \in 1..Len(m) : m[i].key = k

MapGet(m, k) == m[CHOOSE i \in 1..Len(m) : m[i].key = k].value

MapSet(m, k, v) ==
    IF MapHas(m, k)
    THEN [i \in 1..Len(m) |->
            IF m[i].key = k THEN [key |-> k, value |-> v] ELSE m[i]]
    ELSE Append(m, [key |-> k, value |-> v])

MapKeys(m) == {m[i].key : i \in 1..Len(m)}

\* if (!index.has(k)) index.set(k, []); index.get(k).push(q)
IndexPush(index, k, q) ==
    MapSet(index, k, (IF MapHas(index, k) THEN MapGet(index, k) ELSE <<>>) \o <<q>>)

MakeQualifiedName(parts) == ToUpperCase(JoinDot(parts))

TableInfo(catalog, schema, name) ==
    [catalog |-> catalog, schema |-> schema, name |-> name]

ColumnInfo(catalog, schema, tableName, columnName, dataType) ==
    [catalog |-> catalog, schema |-> schema, tableName |-> tableName,
     columnName |-> columnName, dataType |-> dataType]

TableKey(t) == MakeQualifiedName(<<t.catalog, t.schema, t.name>>)

ColumnTableKey(c) == MakeQualifiedName(<<c.catalog, c.schema, c.tableName>>)

ColumnKey(c) ==
    MakeQualifiedName(<<c.catalog, c.schema, c.tableName, c.columnName>>)

\* the fields of the cache as one record
Cache ==
    [tables |-> tables, columns |-> columns, schemas |-> schemas,
     tablesWithColumns |-> tablesWithColumns,
     tableNameIndex |-> tableNameIndex, columnNameIndex |-> columnNameIndex]

\* clear()
Clear(c) ==
    [tables |-> <<>>, columns |-> <<>>, schemas |-> {},
     tablesWithColumns |-> {}, tableNameIndex |-> <<>>,
     columnNameIndex |-> <<>>]

\* loadTables: group columns by table
RECURSIVE GroupColumns(_, _)
GroupColumns(columnsByTable, cols) ==
    IF cols = <<>> THEN columnsByTable
    ELSE GroupColumns(
            IndexPush(columnsByTable, ColumnTableKey(Head(cols)), Head(cols)),
            Tail(cols))

\* loadTables: cache tables with their columns
RECURSIVE CacheTables(_, _, _)
CacheTables(c, ts, columnsByTable) ==
    IF ts = <<>> THEN c
    ELSE LET table == Head(ts)
             qualifiedName == TableKey(table)
             tableColumns ==
                 IF MapHas(columnsByTable, qualifiedName)
                 THEN MapGet(columnsByTable, qualifiedName)
                 ELSE <<>>
         IN  CacheTables(
                [c EXCEPT
                    !.tables = MapSet(@, qualifiedName,
                                      [qualifiedName |-> qualifiedName,
                                       info |-> table,
                                       columns |-> tableColumns]),
                    !.schemas = @ \cup {table.schema},
                    !.tableNameIndex =
                        IndexPush(@, ToLowerCase(table.name), qualifiedName)],
                Tail(ts), columnsByTable)

\* loadTables(tables, columns)
LoadTables(c, ts, cols) == CacheTables(c, ts, GroupColumns(<<>>, cols))

\* the loop of loadColumns, which ensureColumnsLoaded repeats
RECURSIVE CacheColumns(_, _)
CacheColumns(c, cols) ==
    IF cols = <<>> THEN c
    ELSE LET column == Head(cols)
             qualifiedName == ColumnKey(column)
         IN  CacheColumns(
                [c EXCEPT
                    !.columns = MapSet(@, qualifiedName,
                                       [qualifiedName |-> qualifiedName,
                                        info |-> column]),
                    !.columnNameIndex =
                        IndexPush(@, ToLowerCase(column.columnName),
                                  qualifiedName)],
                Tail(cols))

\* loadColumns(columns)
LoadColumns(c, cols) == CacheColumns(c, cols)

\* hasColumns(qualifiedName)
HasColumns(c, qualifiedName) ==
    ToUpperCase(qualifiedName) \in c.tablesWithColumns

\* a faulty variant of the lazy load that never marks the table
EnsureResolvedNoMark(c, upperName, cols) ==
    LET d == CacheColumns(c, cols)
    IN  IF MapHas(d.tables, upperName)
        THEN [d EXCEPT !.tables =
                MapSet(@, upperName,
                       [MapGet(d.tables, upperName) EXCEPT !.columns = cols])]
        ELSE d

\* a faulty variant of the lazy load that pushes the fetched columns onto the
\* table's list
EnsureResolvedAppends(c, upperName, cols) ==
    LET d == CacheColumns(c, cols)
        e == IF MapHas(d.tables, upperName)
             THEN [d EXCEPT !.tables =
                     MapSet(@, upperName,
                            [MapGet(d.tables, upperName)
                                EXCEPT !.columns = @ \o cols])]
             ELSE d
    IN  [e EXCEPT !.tablesWithColumns = @ \cup {upperName}]

\* ensureColumnsLoaded after its fetcher returned cols
EnsureResolved(c, upperName, cols) ==
    LET d == CacheColumns(c, cols)
        e == IF MapHas(d.tables, upperName)
             THEN [d EXCEPT !.tables =
                     MapSet(@, upperName,
                            [MapGet(d.tables, upperName)
                                EXCEPT !.columns = cols])]
             ELSE d
    IN  [e EXCEPT !.tablesWithColumns = @ \cup {upperName}]

\* a faulty variant of the catch block that marks the table all the same
EnsureRejectedMarks(c, upperName) ==
    [c EXCEPT !.tablesWithColumns = @ \cup {upperName}]

\* ensureColumnsLoaded after its fetcher threw: the catch block
EnsureRejected(c, upperName) == c

-----------------------------------------------------------------------------
(* Inputs of the cache model *)

StrDb == <<"D","b">>
StrS == <<"S">>
StrR == <<"r">>
StrT1 == <<"t","1">>
StrT2 == <<"T","2">>

Table1 == TableInfo(StrDb, StrS, StrT1)
Table2 == TableInfo(StrDb, StrR, StrT2)

\* the lists fetchTables may return
TableLists == {<<Table1>>, <<Table2>>, <<Table1, Table2>>}

Column1a == ColumnInfo(StrDb, StrS, StrT1, <<"a">>, "NUMBER")
Column1aText == ColumnInfo(StrDb, StrS, StrT1, <<"a">>, "TEXT")
Column1b == ColumnInfo(StrDb, StrS, StrT1, <<"B">>, "TEXT")

\* the column lists passed to loadTables and loadColumns
ColumnLists == {<<>>, <<Column1a>>}

\* the names ensureColumnsLoaded is called with
QualifiedNames ==
    {JoinDot(<<StrDb, StrS, StrT1>>),
     ToUpperCase(JoinDot(<<StrDb, StrS, StrT1>>)),
     JoinDot(<<StrS, StrT1>>),
     JoinDot(<<StrDb, StrS, StrT1, <<"a">>>>)}

\* the lists fetchColumnsForTable(db, schema, table) may return
FetchResults(upperName) ==
    IF upperName = TableKey(Table1)
    THEN {<<Column1a>>, <<Column1aText, Column1b>>}
    ELSE {<<>>}

-----------------------------------------------------------------------------
(* The cache: its operations, ensureColumnsLoaded split at its await *)

SetCache(c) ==
    /\ tables' = c.tables
    /\ columns' = c.columns
    /\ schemas' = c.schemas
    /\ tablesWithColumns' = c.tablesWithColumns
    /\ tableNameIndex' = c.tableNameIndex
    /\ columnNameIndex' = c.columnNameIndex

\* no list of a name index is longer than the model allows
IndexWithinBound(c) ==
    /\ \A i \in 1..Len(c.tableNameIndex) :
          Len(c.tableNameIndex[i].value) <= MaxIndexLen
    /\ \A i \in 1..Len(c.columnNameIndex) :
          Len(c.columnNameIndex[i].value) <= MaxIndexLen

RemoveAt(seq, i) == SubSeq(seq, 1, i - 1) \o SubSeq(seq, i + 1, Len(seq))

DoClear ==
    /\ SetCache(Clear(Cache))
    /\ loadedSinceClear' = {}
    /\ op' = [kind |-> "clear"]
    /\ UNCHANGED <<pending, loadedEver, lastFetched>>
    /\ UNCHANGED <<sessionVars, now, catalogVars, ddlVars>>

DoLoadTables(ts, cols) ==
    /\ LET c == LoadTables(Cache, ts, cols)
       IN  IndexWithinBound(c) /\ SetCache(c)
    /\ op' = [kind |-> "loadTables", tables |-> ts, columns |-> cols]
    /\ UNCHANGED cacheHistVars
    /\ UNCHANGED <<sessionVars, now, catalogVars, ddlVars>>

DoLoadColumns(cols) ==
    /\ LET c == LoadColumns(Cache, cols)
       IN  IndexWithinBound(c) /\ SetCache(c)
    /\ op' = [kind |-> "loadColumns", columns |-> cols]
    /\ UNCHANGED cacheHistVars
    /\ UNCHANGED <<sessionVars, now, catalogVars, ddlVars>>

\* a faulty variant of the segment test that lets longer names through
HasThreePartsOrMore(parts) == Len(parts) >= 3

\* the negation of `parts.length !== 3`
HasThreeParts(parts) == Len(parts) = 3

EnsureOp(name, fetched, outcome) ==
    [kind |-> "ensure", name |-> name, fetched |-> fetched,
     outcome |-> outcome,
     afterReject |-> op.kind = "reject" /\ op.name = ToUpperCase(name)]

\* ensureColumnsLoaded(qualifiedName, fetcher) up to its await
EnsureColumnsLoaded(qualifiedName) ==
    LET upperName == ToUpperCase(qualifiedName)
        parts == SplitDot(upperName)
    IN  /\ IF upperName \in tablesWithColumns
           THEN /\ op' = EnsureOp(qualifiedName, FALSE, "returned")
                /\ UNCHANGED pending
           ELSE IF ~HasThreeParts(parts)
           THEN /\ op' = EnsureOp(qualifiedName, FALSE, "threw")
                /\ UNCHANGED pending
           ELSE /\ Len(pending) < MaxPending
                /\ pending' = Append(pending,
                                [upperName |-> upperName, db |-> parts[1],
                                 schema |-> parts[2], table |-> parts[3]])
                /\ op' = EnsureOp(qualifiedName, TRUE, "awaiting")
        /\ UNCHANGED cacheVars
        /\ UNCHANGED <<loadedSinceClear, loadedEver, lastFetched>>
        /\ UNCHANGED <<sessionVars, now, catalogVars, ddlVars>>

\* the fetcher of the suspended call i returns cols and the call runs to its end
FetchReturns(i, cols) ==
    LET upperName == pending[i].upperName
        c == EnsureResolved(Cache, upperName, cols)
    IN  /\ IndexWithinBound(c)
        /\ SetCache(c)
        /\ pending' = RemoveAt(pending, i)
        /\ loadedSinceClear' = loadedSinceClear \cup {upperName}
        /\ loadedEver' = loadedEver \cup {upperName}
        /\ lastFetched' = MapSet(lastFetched, upperName, cols)
        /\ op' = [kind |-> "resolve", name |-> upperName, result |-> cols,
                  outcome |-> "returned",
                  dup |-> /\ op.kind = "resolve"
                          /\ op.name = upperName
                          /\ op.result = cols]
        /\ UNCHANGED <<sessionVars, now, catalogVars, ddlVars>>

\* the fetcher of the suspended call i throws and the call rethrows
FetchThrows(i) ==
    LET upperName == pending[i].upperName
    IN  /\ SetCache(EnsureRejected(Cache, upperName))
        /\ pending' = RemoveAt(pending, i)
        /\ op' = [kind |-> "reject", name |-> upperName, outcome |-> "threw"]
        /\ UNCHANGED <<loadedSinceClear, loadedEver, lastFetched>>
        /\ UNCHANGED <<sessionVars, now, catalogVars, ddlVars>>

CacheInit == SessionInit /\ CacheIdle /\ CatalogIdle

CacheNext ==
    \/ DoClear
    \/ \E ts \in TableLists, cols \in ColumnLists : DoLoadTables(ts, cols)
    \/ \E cols \in ColumnLists : DoLoadColumns(cols)
    \/ \E qualifiedName \in QualifiedNames : EnsureColumnsLoaded(qualifiedName)
    \/ \E i \in 1..Len(pending) : \E cols \in FetchResults(pending[i].upperName) :
          FetchReturns(i, cols)
    \/ \E i \in 1..Len(pending) : FetchThrows(i)

CacheSpec == CacheInit /\ [][CacheNext]_vars

-----------------------------------------------------------------------------
(* Claims about the lazy column load and loadTables *)

\* the last operation was a call of ensureColumnsLoaded, up to its await
Called == op.kind = "ensure"

\* C6 as stated: once a call for a table has completed successfully, every
\* later call for it, in any letter case, invokes the fetcher zero times and
\* changes no cache state.
C6_LoadedOnceForEver ==
    [][(op'.kind = "ensure" /\ ToUpperCase(op'.name) \in loadedEver) =>
         (~op'.fetched /\ UNCHANGED cacheVars)]_vars

\* C6, amended: once a call for a table has completed successfully, and
\* until clear() is called, every later call for it, in any letter case,
\* invokes the fetcher zero times and changes no cache state.
C6_LoadedOnceUntilClear ==
    [][(op'.kind = "ensure" /\ ToUpperCase(op'.name) \in loadedSinceClear) =>
         (/\ ~op'.fetched
          /\ op'.outcome = "returned"
          /\ UNCHANGED cacheVars
          /\ UNCHANGED pending)]_vars

\* C6 happens: a call in mixed case, after a success, returned without a
\* fetch
C6_Witness ==
    /\ Called
    /\ ToUpperCase(op.name) \in loadedSinceClear
    /\ op.name # ToUpperCase(op.name)
    /\ ~op.fetched
    /\ columns # <<>>

\* C7: when the fetcher of a call throws, the call throws, and the loaded
\* flags, the column index, the tables and their column lists are as they
\* were; the next call for that table, its flag unset, invokes the fetcher.
C7_FailureLeavesCache ==
    [][/\ op'.kind = "reject" =>
            (op'.outcome = "threw" /\ UNCHANGED cacheVars)
       /\ (/\ op.kind = "reject"
           /\ op'.kind = "ensure"
           /\ ToUpperCase(op'.name) = op.name
           /\ op.name \notin tablesWithColumns)
          => (op'.fetched /\ Len(pending') = Len(pending) + 1)]_vars

\* C7 happens: a call for a cached table fetches right after the failure of
\* a call for that table
C7_Witness ==
    /\ Called
    /\ op.afterReject
    /\ op.fetched
    /\ ToUpperCase(op.name) \notin tablesWithColumns
    /\ MapHas(tables, ToUpperCase(op.name))

\* C8: a table that is flagged columns-loaded and present in the table map
\* has the columns of its last successful fetch as its column list, each of
\* them in the column index under its qualified name.
C8_LoadedTablesHoldFetched ==
    \A q \in tablesWithColumns :
        MapHas(tables, q) =>
            /\ MapHas(lastFetched, q)
            /\ MapGet(tables, q).columns = MapGet(lastFetched, q)
            /\ \A k \in 1..Len(MapGet(tables, q).columns) :
                  MapHas(columns, ColumnKey(MapGet(tables, q).columns[k]))

\* C9: when a second call for a table completes right after a first one,
\* both having been suspended at once with fetchers returning the same list,
\* the column index, the tables with their column lists and the loaded flags
\* are those the first call left.
C9_DuplicateLoadHarmless ==
    [][(op'.kind = "resolve" /\ op'.dup) =>
         (/\ columns' = columns
          /\ tables' = tables
          /\ tablesWithColumns' = tablesWithColumns)]_vars

\* C9 happens: two overlapping calls for a cached table completed with the
\* same non-empty list
C9_Witness ==
    /\ op.kind = "resolve"
    /\ op.dup
    /\ op.result # <<>>
    /\ MapHas(tables, op.name)
    /\ MapGet(tables, op.name).columns = op.result

\* the qualified names of a list of tables
KeysOf(ts) == {TableKey(ts[k]) : k \in 1..Len(ts)}

\* C10: after loadTables(B), whatever was loaded before, the cached tables
\* are exactly those of B, the bare-name index lists the tables of B and no
\* other, each once, and the schema names are exactly those of B.
C10_LoadTablesReplaces ==
    op.kind = "loadTables" =>
        /\ MapKeys(tables) = KeysOf(op.tables)
        /\ schemas = {op.tables[k].schema : k \in 1..Len(op.tables)}
        /\ MapKeys(tableNameIndex) =
              {ToLowerCase(op.tables[k].name) : k \in 1..Len(op.tables)}
        /\ \A i \in 1..Len(tableNameIndex) :
              LET list == tableNameIndex[i].value
              IN  /\ \A j \in 1..Len(list) : list[j] \in KeysOf(op.tables)
                  /\ \A j, k \in 1..Len(list) : list[j] = list[k] => j = k

\* C15: a call of ensureColumnsLoaded for a name that is not flagged
\* columns-loaded and does not split at its dots into exactly three segments
\* throws without invoking the fetcher and leaves the whole cache as it was.
C15_MalformedNameFailsFast ==
    [][(/\ op'.kind = "ensure"
        /\ ToUpperCase(op'.name) \notin tablesWithColumns
        /\ Len(SplitDot(ToUpperCase(op'.name))) # 3)
       => (/\ op'.outcome = "threw"
           /\ ~op'.fetched
           /\ UNCHANGED pending
           /\ UNCHANGED cacheVars)]_vars

\* C15 happens: a call with a name of four segments threw on a filled cache
C15_Witness ==
    /\ Called
    /\ Len(SplitDot(op.name)) = 4
    /\ op.outcome = "threw"
    /\ ~op.fetched
    /\ tables # <<>>
    /\ tablesWithColumns # {}

-----------------------------------------------------------------------------
(* SchemaCache: views, warehouses, roles, users and databases *)

ViewInfo(catalog, schema, name, definition) ==
    [catalog |-> catalog, schema |-> schema, name |-> name,
     definition |-> definition]

WarehouseInfo(name, state) == [name |-> name, state |-> state]

RoleInfo(name, is_default) == [name |-> name, is_default |-> is_default]

UserInfo(name, login_name) == [name |-> name, login_name |-> login_name]

DatabaseInfo(name, owner) == [name |-> name, owner |-> owner]

ViewKey(v) == MakeQualifiedName(<<v.catalog, v.schema, v.name>>)

\* the values of a map, in insertion order
MapValues(m) == [i \in 1..Len(m) |-> m[i].value]

\* loadViews(views)
RECURSIVE LoadViews(_, _)
LoadViews(m, vs) ==
    IF vs = <<>> THEN m
    ELSE LoadViews(MapSet(m, ViewKey(Head(vs)), Head(vs)), Tail(vs))

\* for (const e of entities) map.set(e.name.toUpperCase(), e)
RECURSIVE SetByName(_, _)
SetByName(m, es) ==
    IF es = <<>> THEN m
    ELSE SetByName(MapSet(m, ToUpperCase(Head(es).name), Head(es)), Tail(es))

\* loadWarehouses(warehouses)
LoadWarehouses(m, ws) == SetByName(EmptyMap, ws)

\* loadRoles(roles)
LoadRoles(m, rs) == SetByName(EmptyMap, rs)

\* loadUsers(users)
LoadUsers(m, us) == SetByName(EmptyMap, us)

\* loadDatabases(databases)
LoadDatabases(m, ds) == SetByName(EmptyMap, ds)

\* getView(name): the view in a one-element tuple, or Null for undefined
GetView(m, name) == IF MapHas(m, name) THEN Some(MapGet(m, name)) ELSE Null

\* getWarehouses(), getRoles(), getUsers(), getDatabases()
GetWarehouses(m) == MapValues(m)
GetRoles(m) == MapValues(m)
GetUsers(m) == MapValues(m)
GetDatabases(m) == MapValues(m)

\* the elements of es whose name starts with prefix, compared in lower case
NameStartsWith(es, prefix) ==
    LET Test(e) == StartsWith(ToLowerCase(e.name), ToLowerCase(prefix))
    IN  SelectSeq(es, Test)

\* searchWarehouses(prefix), searchRoles(prefix), searchDatabases(prefix)
SearchWarehouses(m, prefix) == NameStartsWith(GetWarehouses(m), prefix)
SearchRoles(m, prefix) == NameStartsWith(GetRoles(m), prefix)
SearchDatabases(m, prefix) == NameStartsWith(GetDatabases(m), prefix)

\* searchUsers(prefix)
SearchUsers(m, prefix) ==
    LET Test(u) ==
            \/ StartsWith(ToLowerCase(u.name), ToLowerCase(prefix))
            \/ StartsWith(ToLowerCase(u.login_name), ToLowerCase(prefix))
    IN  SelectSeq(GetUsers(m), Test)

-----------------------------------------------------------------------------
(* Inputs of the catalog model *)

View1 == ViewInfo(StrDb, StrS, <<"v","1">>, "select 1")
View2 == ViewInfo(StrDb, StrS, <<"V","2">>, "select 2")

Warehouse1 == WarehouseInfo(<<"w","h">>, "STARTED")
Warehouse2 == WarehouseInfo(<<"E","t","l">>, "SUSPENDED")

Role1 == RoleInfo(<<"d","e","v">>, TRUE)
Role2 == RoleInfo(<<"O","p","s">>, FALSE)

User1 == UserInfo(<<"a","n","n">>, <<"A","1">>)
User2 == UserInfo(<<"B","o">>, <<"b","2">>)

Database1 == DatabaseInfo(StrDb, "ann")
Database2 == DatabaseInfo(<<"r","a","w">>, "Bo")

\* the lists a fetch may return of two entities
ListsOf(e1, e2) == {<<e1>>, <<e2>>, <<e1, e2>>}

\* the prefixes searched for
Prefixes == {<<>>, <<"W">>, <<"e">>, <<"D">>, <<"o">>, <<"a">>, <<"b">>, <<"r">>}

-----------------------------------------------------------------------------
(* The catalog categories: their load operations *)

LoadOp(kind, entities) == [kind |-> kind, entities |-> entities]

DoLoadViews(vs) ==
    /\ views' = LoadViews(views, vs)
    /\ op' = LoadOp("loadViews", vs)
    /\ UNCHANGED <<warehouses, roles, users, databases, queryHistory, ddlVars>>
    /\ UNCHANGED <<sessionVars, now, cacheVars, cacheHistVars>>

DoLoadWarehouses(ws) ==
    /\ warehouses' = LoadWarehouses(warehouses, ws)
    /\ op' = LoadOp("loadWarehouses", ws)
    /\ UNCHANGED <<views, roles, users, databases, queryHistory, ddlVars>>
    /\ UNCHANGED <<sessionVars, now, cacheVars, cacheHistVars>>

DoLoadRoles(rs) ==
    /\ roles' = LoadRoles(roles, rs)
    /\ op' = LoadOp("loadRoles", rs)
    /\ UNCHANGED <<views, warehouses, users, databases, queryHistory, ddlVars>>
    /\ UNCHANGED <<sessionVars, now, cacheVars, cacheHistVars>>

DoLoadUsers(us) ==
    /\ users' = LoadUsers(users, us)
    /\ op' = LoadOp("loadUsers", us)
    /\ UNCHANGED <<views, warehouses, roles, databases, queryHistory, ddlVars>>
    /\ UNCHANGED <<sessionVars, now, cacheVars, cacheHistVars>>

DoLoadDatabases(ds) ==
    /\ databases' = LoadDatabases(databases, ds)
    /\ op' = LoadOp("loadDatabases", ds)
    /\ UNCHANGED <<views, warehouses, roles, users, queryHistory, ddlVars>>
    /\ UNCHANGED <<sessionVars, now, cacheVars, cacheHistVars>>

CatalogInit == SessionInit /\ CacheIdle /\ CatalogIdle

CatalogNext ==
    \/ \E vs \in ListsOf(View1, View2) : DoLoadViews(vs)
    \/ \E ws \in ListsOf(Warehouse1, Warehouse2) : DoLoadWarehouses(ws)
    \/ \E rs \in ListsOf(Role1, Role2) : DoLoadRoles(rs)
    \/ \E us \in ListsOf(User1, User2) : DoLoadUsers(us)
    \/ \E ds \in ListsOf(Database1, Database2) : DoLoadDatabases(ds)

CatalogSpec == CatalogInit /\ [][CatalogNext]_vars

-----------------------------------------------------------------------------
(* Claims about the catalog categories *)

\* the upper-cased names of a list of entities
NamesOf(es) == {ToUpperCase(es[k].name) : k \in 1..Len(es)}

\* the elements of a sequence
Range(seq) == {seq[k] : k \in 1..Len(seq)}

\* C11: after a load of views, warehouses, roles, users or databases with
\* the list B, whatever was loaded before, the category holds exactly the
\* entities of B, and its get and search operations return entities of B
\* only.
C11_LoadReplacesCategory ==
    /\ op.kind = "loadViews" =>
          /\ MapKeys(views) = {ViewKey(op.entities[k]) :
                                  k \in 1..Len(op.entities)}
          /\ \A v \in {View1, View2} :
                GetView(views, ViewKey(v)) # Null => v \in Range(op.entities)
    /\ op.kind = "loadWarehouses" =>
          /\ MapKeys(warehouses) = NamesOf(op.entities)
          /\ Range(GetWarehouses(warehouses)) = Range(op.entities)
          /\ \A p \in Prefixes :
                Range(SearchWarehouses(warehouses, p)) \subseteq Range(op.entities)
    /\ op.kind = "loadRoles" =>
          /\ MapKeys(roles) = NamesOf(op.entities)
          /\ Range(GetRoles(roles)) = Range(op.entities)
          /\ \A p \in Prefixes :
                Range(SearchRoles(roles, p)) \subseteq Range(op.entities)
    /\ op.kind = "loadUsers" =>
          /\ MapKeys(users) = NamesOf(op.entities)
          /\ Range(GetUsers(users)) = Range(op.entities)
          /\ \A p \in Prefixes :
                Range(SearchUsers(users, p)) \subseteq Range(op.entities)
    /\ op.kind = "loadDatabases" =>
          /\ MapKeys(databases) = NamesOf(op.entities)
          /\ Range(GetDatabases(databases)) = Range(op.entities)
          /\ \A p \in Prefixes :
                Range(SearchDatabases(databases, p)) \subseteq Range(op.entities)

-----------------------------------------------------------------------------
(* SchemaCache: getTable and searchTables *)

\* getTable: the exact match, in a one-element tuple, or Null
GetTableExact(c, upperName) ==
    IF MapHas(c.tables, upperName) THEN Some(MapGet(c.tables, upperName))
    ELSE Null

\* getTable: the scan for a qualified name ending with '.' + upperName
GetTableScan(c, upperName) ==
    LET hits == {i \in 1..Len(c.tables) :
                    \/ EndsWith(c.tables[i].key, <<".">> \o upperName)
                    \/ c.tables[i].key = upperName}
    IN  IF hits = {} THEN Null
        ELSE Some(c.tables[CHOOSE i \in hits : \A j \in hits : i <= j].value)

\* name.split('.').pop()?.toLowerCase() || name.toLowerCase()
BareLowerName(name) ==
    LET parts == SplitDot(name)
        last == ToLowerCase(parts[Len(parts)])
    IN  IF last # <<>> THEN last ELSE ToLowerCase(name)

\* getTable: the lookup through the bare-name index
GetTableByIndex(c, name) ==
    LET lowerName == BareLowerName(name)
    IN  IF MapHas(c.tableNameIndex, lowerName)
           /\ Len(MapGet(c.tableNameIndex, lowerName)) > 0
        THEN GetTableExact(c, MapGet(c.tableNameIndex, lowerName)[1])
        ELSE Null

\* a faulty variant of getTable that consults the bare-name index before the
\* scan
GetTableIndexFirst(c, name) ==
    LET upperName == ToUpperCase(name)
    IN  IF GetTableExact(c, upperName) # Null THEN GetTableExact(c, upperName)
        ELSE IF GetTableByIndex(c, name) # Null THEN GetTableByIndex(c, name)
        ELSE GetTableScan(c, upperName)

\* getTable(name)
GetTable(c, name) ==
    LET upperName == ToUpperCase(name)
    IN  IF GetTableExact(c, upperName) # Null THEN GetTableExact(c, upperName)
        ELSE IF GetTableScan(c, upperName) # Null THEN GetTableScan(c, upperName)
        ELSE GetTableByIndex(c, name)

\* the test of searchTables on one entry of the table map
TableMatches(entry, lowerPrefix) ==
    \/ Includes(ToLowerCase(entry.key), lowerPrefix)
    \/ StartsWith(ToLowerCase(entry.value.info.name), lowerPrefix)

\* the loop of searchTables from entry i on, with its break
RECURSIVE SearchTablesFrom(_, _, _, _, _)
SearchTablesFrom(c, i, lowerPrefix, limit, results) ==
    IF i > Len(c.tables) THEN results
    ELSE IF TableMatches(c.tables[i], lowerPrefix)
    THEN LET pushed == Append(results, c.tables[i].value)
         IN  IF Len(pushed) >= limit THEN pushed
             ELSE SearchTablesFrom(c, i + 1, lowerPrefix, limit, pushed)
    ELSE SearchTablesFrom(c, i + 1, lowerPrefix, limit, results)

\* searchTables(prefix, limit)
SearchTables(c, prefix, limit) ==
    SearchTablesFrom(c, 1, ToLowerCase(prefix), limit, <<>>)

-----------------------------------------------------------------------------
(* Inputs of the lookup model *)

\* a table with the bare name of Table1 in the schema of Table2
Table3 == TableInfo(StrDb, StrR, StrT1)

LookupTableLists ==
    {<<Table1>>, <<Table2>>, <<Table3>>, <<Table3, Table1>>,
     <<Table2, Table1>>}

\* the names getTable is called with
LookupNames ==
    {JoinDot(<<StrDb, StrS, StrT1>>),
     <<"s", ".", "T", "1">>,
     <<"T", "1">>,
     <<"x", ".", "t", "1">>,
     <<"t", "2">>,
     <<"t">>}

\* the prefixes searchTables is called with
LookupPrefixes == {<<>>, <<"T">>, <<"t", "1">>, <<"s", ".">>, <<"b", ".", "R">>, <<"x">>}

\* limit when the caller passes none
DefaultLimit == 50

\* the limits searchTables is called with
Limits == {0, 1, 2, DefaultLimit}

-----------------------------------------------------------------------------
(* Lookups on a cache that loadTables filled *)

DoGetTable(name) ==
    /\ op' = [kind |-> "getTable", name |-> name,
              result |-> GetTable(Cache, name)]
    /\ UNCHANGED <<cacheVars, cacheHistVars, catalogVars, ddlVars>>
    /\ UNCHANGED <<sessionVars, now>>

DoSearchTables(prefix, limit) ==
    /\ op' = [kind |-> "searchTables", prefix |-> prefix, limit |-> limit,
              result |-> SearchTables(Cache, prefix, limit)]
    /\ UNCHANGED <<cacheVars, cacheHistVars, catalogVars, ddlVars>>
    /\ UNCHANGED <<sessionVars, now>>

LookupInit == SessionInit /\ CacheIdle /\ CatalogIdle

LookupNext ==
    \/ \E ts \in LookupTableLists : DoLoadTables(ts, <<>>)
    \/ \E name \in LookupNames : DoGetTable(name)
    \/ \E prefix \in LookupPrefixes, limit \in Limits :
          DoSearchTables(prefix, limit)

LookupSpec == LookupInit /\ [][LookupNext]_vars

-----------------------------------------------------------------------------
(* Claims about getTable and searchTables *)

\* the positions of the cached tables whose qualified name ends with
\* '.' + upperName
SuffixHits(upperName) ==
    {i \in 1..Len(tables) : EndsWith(tables[i].key, <<".">> \o upperName)}

\* the last dot-separated segment of name, in lower case
LastSegment(name) == ToLowerCase(SplitDot(name)[Len(SplitDot(name))])

\* C12: getTable(name) returns the table whose qualified name is
\* upper-case(name); else the first cached table, in insertion order, whose
\* qualified name ends with '.' + upper-case(name); else the table of the
\* first qualified name the bare-name index lists under the lower-cased last
\* segment of name; else undefined.
C12_GetTableOrder ==
    op.kind = "getTable" =>
        LET upperName == ToUpperCase(op.name)
            hits == SuffixHits(upperName)
            bare == LastSegment(op.name)
        IN  IF upperName \in MapKeys(tables)
            THEN /\ op.result # Null
                 /\ op.result[1].qualifiedName = upperName
            ELSE IF hits # {}
            THEN /\ op.result # Null
                 /\ \E i \in hits :
                       /\ \A j \in hits : i <= j
                       /\ op.result[1] = tables[i].value
            ELSE IF \E k \in 1..Len(tableNameIndex) :
                       tableNameIndex[k].key = bare
            THEN /\ op.result # Null
                 /\ op.result[1].qualifiedName =
                       MapGet(tableNameIndex, bare)[1]
            ELSE op.result = Null

\* C12 happens: a schema-qualified name found by the scan, while the
\* bare-name index lists a table of another schema first
C12_Witness ==
    /\ op.kind = "getTable"
    /\ ToUpperCase(op.name) \notin MapKeys(tables)
    /\ SuffixHits(ToUpperCase(op.name)) # {}
    /\ op.result # Null
    /\ MapHas(tableNameIndex, LastSegment(op.name))
    /\ MapGet(tableNameIndex, LastSegment(op.name))[1] #
          op.result[1].qualifiedName

\* the positions of the cached tables that match prefix
MatchesOf(prefix) ==
    {i \in 1..Len(tables) :
        \/ StartsWith(ToLowerCase(tables[i].value.info.name), ToLowerCase(prefix))
        \/ Includes(ToLowerCase(tables[i].key), ToLowerCase(prefix))}

\* C13: searchTables(prefix, limit) returns at most limit tables: the first
\* min(limit, number of matches) matching tables in insertion order.
C13_SearchTablesLimit ==
    op.kind = "searchTables" =>
        LET matches == MatchesOf(op.prefix)
            n == IF op.limit < Cardinality(matches) THEN op.limit
                 ELSE Cardinality(matches)
        IN  /\ Len(op.result) <= op.limit
            /\ Len(op.result) = n
            /\ \A k \in 1..Len(op.result) :
                  \E i \in matches :
                      /\ op.result[k] = tables[i].value
                      /\ Cardinality({j \in matches : j < i}) = k - 1

-----------------------------------------------------------------------------
(* SchemaCache: the DDL cache *)

\* DDL_CACHE_TTL, in milliseconds
DDL_CACHE_TTL == 24 * 60 * 60 * 1000

\* Map.prototype.delete
MapDelete(m, k) ==
    LET Keep(e) == e.key # k
    IN  SelectSeq(m, Keep)

\* a faulty variant of the expiry test that expires an entry when its age
\* reaches the TTL
IsExpiredAtTtl(t, fetchedAt) == t - fetchedAt >= DDL_CACHE_TTL

\* now - cached.fetchedAt > this.DDL_CACHE_TTL
IsExpired(t, fetchedAt) == t - fetchedAt > DDL_CACHE_TTL

\* hasDDL(qualifiedName) at time t: the value returned and the map left
HasDDL(m, qualifiedName, t) ==
    LET key == ToUpperCase(qualifiedName)
    IN  IF ~MapHas(m, key) THEN [value |-> FALSE, ddlCache |-> m]
        ELSE IF IsExpired(t, MapGet(m, key).fetchedAt)
        THEN [value |-> FALSE, ddlCache |-> MapDelete(m, key)]
        ELSE [value |-> TRUE, ddlCache |-> m]

\* getDDL(qualifiedName) at time t: the value returned (Null for undefined)
\* and the map left
GetDDL(m, qualifiedName, t) ==
    LET has == HasDDL(m, qualifiedName, t)
        key == ToUpperCase(qualifiedName)
    IN  IF ~has.value THEN [value |-> Null, ddlCache |-> has.ddlCache]
        ELSE [value |-> IF MapHas(has.ddlCache, key)
                        THEN Some(MapGet(has.ddlCache, key).ddl)
                        ELSE Null,
              ddlCache |-> has.ddlCache]

\* cacheDDL(qualifiedName, ddl) at time t
CacheDDL(m, qualifiedName, ddl, t) ==
    MapSet(m, ToUpperCase(qualifiedName), [ddl |-> ddl, fetchedAt |-> t])

-----------------------------------------------------------------------------
(* Inputs of the DDL model *)

\* the clock is followed for this many TTLs
MaxTtls == 2

\* the times at which the cache is used: the multiples of the TTL and the
\* millisecond after each
ClockValues == {k * DDL_CACHE_TTL + j : k \in 0..MaxTtls, j \in {0, 1}}

DdlNames ==
    {JoinDot(<<StrDb, StrS, StrT1>>),
     ToUpperCase(JoinDot(<<StrDb, StrS, StrT1>>)),
     JoinDot(<<StrDb, StrR, StrT2>>)}

DdlTexts == {"create table t1 (a number)", "create table t1 (a text)"}

-----------------------------------------------------------------------------
(* The DDL cache and the clock *)

\* time passes
Tick(t) ==
    /\ t > now
    /\ now' = t
    /\ op' = [kind |-> "tick"]
    /\ UNCHANGED <<sessionVars, cacheVars, cacheHistVars, catalogVars, ddlVars>>

DoCacheDDL(qualifiedName, ddl) ==
    /\ ddlCache' = CacheDDL(ddlCache, qualifiedName, ddl, now)
    /\ lastCachedDDL' = CacheDDL(lastCachedDDL, qualifiedName, ddl, now)
    /\ op' = [kind |-> "cacheDDL", name |-> qualifiedName, ddl |-> ddl]
    /\ UNCHANGED <<sessionVars, now, cacheVars, cacheHistVars, catalogVars>>

DoHasDDL(qualifiedName) ==
    /\ ddlCache' = HasDDL(ddlCache, qualifiedName, now).ddlCache
    /\ op' = [kind |-> "hasDDL", name |-> qualifiedName,
              result |-> HasDDL(ddlCache, qualifiedName, now).value]
    /\ UNCHANGED lastCachedDDL
    /\ UNCHANGED <<sessionVars, now, cacheVars, cacheHistVars, catalogVars>>

DoGetDDL(qualifiedName) ==
    /\ ddlCache' = GetDDL(ddlCache, qualifiedName, now).ddlCache
    /\ op' = [kind |-> "getDDL", name |-> qualifiedName,
              result |-> GetDDL(ddlCache, qualifiedName, now).value]
    /\ UNCHANGED lastCachedDDL
    /\ UNCHANGED <<sessionVars, now, cacheVars, cacheHistVars, catalogVars>>

DdlInit == SessionInit /\ CacheIdle /\ CatalogIdle

DdlNext ==
    \/ \E t \in ClockValues : Tick(t)
    \/ \E qualifiedName \in DdlNames, ddl \in DdlTexts :
          DoCacheDDL(qualifiedName, ddl)
    \/ \E qualifiedName \in DdlNames : DoHasDDL(qualifiedName)
    \/ \E qualifiedName \in DdlNames : DoGetDDL(qualifiedName)

DdlSpec == DdlInit /\ [][DdlNext]_vars

-----------------------------------------------------------------------------
(* Claims about the DDL cache *)

-----------------------------------------------------------------------------
(* Two documents served by one session manager *)

PairUris == {"a.sql", "b.sql"}

\* the texts of the two documents
PairTexts == {<<LineUseSchema>>, <<LineUseWarehouse>>, <<LineEmpty>>}

PairInit ==
    /\ init = "none"
    /\ globalContext = NoGlobal
    /\ contexts = [u \in {} |-> NoOp]
    /\ docs = [u \in PairUris |-> Closed]
    /\ now = 0
    /\ op = NoOp
    /\ CacheIdle
    /\ CatalogIdle

PairNext ==
    \/ CreateManager
    \/ \E outcome \in QueryOutcomes : InitializeGlobalContext(outcome)
    \/ \E uri \in PairUris, text \in PairTexts : DidOpen(uri, text)
    \/ \E uri \in PairUris, text \in PairTexts : DidChangeContent(uri, text)
    \/ \E uri \in PairUris : DidClose(uri)
    \/ \E uri \in PairUris : Completion(uri)

PairSpec == PairInit /\ [][PairNext]_vars

-----------------------------------------------------------------------------
(* Claims about the records of the session manager *)

\* the four fields a record is seeded with from the global record g
SeedOf(g) ==
    IF g = NoGlobal THEN <<Null, Null, Null, Null>>
    ELSE <<g.database, g.schema, g.warehouse, g.role>>

\* C16: getContext(uri), as onCompletion calls it, creates for a document
\* without a record a record whose database, schema, warehouse and role are
\* those of the global record at that moment, all null while there is none;
\* for a document with a record it leaves the record as it is, whatever the
\* global record holds by then.
C16_FirstAccessSeeds ==
    [][op'.kind = "completion" =>
         IF op'.uri \in DOMAIN contexts
         THEN contexts' = contexts
         ELSE /\ DOMAIN contexts' = DOMAIN contexts \cup {op'.uri}
              /\ contexts'[op'.uri].uri = op'.uri
              /\ Fields(contexts'[op'.uri]) = SeedOf(globalContext)]_vars

\* C16 happens: getContext returned a record that was created before the
\* global record was set and differs from it
C16_Witness ==
    /\ op.kind = "completion"
    /\ globalContext # NoGlobal
    /\ SeedOf(globalContext) # <<Null, Null, Null, Null>>
    /\ Fields(contexts[op.uri]) = <<Null, Null, Null, Null>>

\* the document handlers that reach the session manager
ManagerKinds == {"didOpen", "didChange", "didClose", "completion"}

\* C17: a handler that calls updateContext, getContext or clearContext for
\* one document leaves the records of the other documents and the global
\* record as they are; after clearContext the document has no record; and a
\* record created for a document without one holds, in every field that no
\* command of the call sets, the value of the global record.
C17_OwnRecordOnly ==
    [][op'.kind \in ManagerKinds =>
         LET u == op'.uri
             types == {op'.cmds[k].type : k \in 1..Len(op'.cmds)}
         IN  /\ globalContext' = globalContext
             /\ \A v \in PairUris \ {u} :
                   /\ v \in DOMAIN contexts' <=> v \in DOMAIN contexts
                   /\ v \in DOMAIN contexts => contexts'[v] = contexts[v]
             /\ (op'.kind = "didClose" /\ init # "none") =>
                   u \notin DOMAIN contexts'
             /\ (u \notin DOMAIN contexts /\ u \in DOMAIN contexts') =>
                   /\ "DATABASE" \notin types =>
                         contexts'[u].database = SeedOf(globalContext)[1]
                   /\ types \cap {"DATABASE", "SCHEMA"} = {} =>
                         contexts'[u].schema = SeedOf(globalContext)[2]
                   /\ "WAREHOUSE" \notin types =>
                         contexts'[u].warehouse = SeedOf(globalContext)[3]
                   /\ "ROLE" \notin types =>
                         contexts'[u].role = SeedOf(globalContext)[4]]_vars

\* C17 happens: a document was closed and has no record, while the other
\* document keeps a record with a schema of its own
C17_Witness ==
    /\ op.kind = "didClose"
    /\ init # "none"
    /\ op.uri \notin DOMAIN contexts
    /\ \E v \in PairUris \ {op.uri} :
          /\ v \in DOMAIN contexts
          /\ contexts[v].schema # Null
          /\ contexts[v].schema # SeedOf(globalContext)[2]

-----------------------------------------------------------------------------
(* parseUseCommands applied to documents that use the shorthand *)

ShorthandTexts == UNION {[1..n -> ShorthandLines] : n \in 1..MaxLines}

\* parseUseCommands(text)
Parse(text) ==
    /\ op' = [kind |-> "parse", text |-> text,
              cmds |-> ParseUseCommands(text)]
    /\ UNCHANGED <<sessionVars, now, cacheVars, cacheHistVars, catalogVars,
                   ddlVars>>

ParseInit == SessionInit /\ CacheIdle /\ CatalogIdle

ParseNext == \E text \in ShorthandTexts : Parse(text)

ParseSpec == ParseInit /\ [][ParseNext]_vars

-----------------------------------------------------------------------------
(* Claims about the shorthand of parseUseCommands *)

\* the commands of cmds that carry line number n
OfLine(cmds, n) ==
    LET Test(cmd) == cmd.line = n
    IN  SelectSeq(cmds, Test)

\* the type a keyword stands for
TypeOf(kw) ==
    CASE kw = KwDatabase -> "DATABASE"
      [] kw = KwSchema -> "SCHEMA"
      [] kw = KwWarehouse -> "WAREHOUSE"
      [] kw = KwRole -> "ROLE"

\* C18: of each line of a text, `USE <name>` with a name that is no keyword
\* yields exactly the command DATABASE(name), and a line whose word after
\* USE is one of the four keywords yields a command of that keyword's type
\* and no DATABASE command whose value is the keyword.
C18_Shorthand ==
    op.kind = "parse" =>
        \A i \in 1..Len(op.text) :
            LET line == op.text[i]
                cmds == OfLine(op.cmds, i - 1)
            IN  /\ \A n \in ShortNames :
                      line = ShorthandLine(n) =>
                          cmds = <<Command("DATABASE", n, i - 1)>>
                /\ \A kw \in Keywords :
                      (\/ line = BareKeywordLine(kw)
                       \/ line = KeywordLine(kw, <<"n","1">>))
                      => /\ \E k \in 1..Len(cmds) : cmds[k].type = TypeOf(kw)
                         /\ \A k \in 1..Len(cmds) :
                               ~(/\ cmds[k].type = "DATABASE"
                                 /\ ToUpperCase(cmds[k].value) = kw)

-----------------------------------------------------------------------------
(* Startup: onInitialized populates the cache (server.ts, snowflake.ts) *)

\* what a fetch may do: reject, or resolve with a list
Rejects == [throws |-> TRUE, rows |-> <<>>]
Resolves(rows) == [throws |-> FALSE, rows |-> rows]

\* fetchTables and fetchViews: the error of executeQuery propagates
PropagatingFetch(outcome) == outcome

\* fetchWarehouses, fetchRoles, fetchUsers, fetchDatabases and
\* fetchQueryHistory: catch (error) { return []; }
CaughtFetch(outcome) == IF outcome.throws THEN Resolves(<<>>) ELSE outcome

\* the seven promises handed to Promise.all
FetchAll(o) ==
    [tables |-> PropagatingFetch(o.tables),
     views |-> PropagatingFetch(o.views),
     warehouses |-> CaughtFetch(o.warehouses),
     roles |-> CaughtFetch(o.roles),
     users |-> CaughtFetch(o.users),
     databases |-> CaughtFetch(o.databases),
     queryHistory |-> CaughtFetch(o.queryHistory)]

\* Promise.all rejects when one of its promises does
AllRejects(results) == \E k \in DOMAIN results : results[k].throws

QueryHistoryInfo(query_id, query_text) ==
    [query_id |-> query_id, query_text |-> query_text]

\* loadQueryHistory(queryHistory): replaces the category
LoadQueryHistory(h, qs) == qs

Query1 == QueryHistoryInfo("q1", "select 1")

Categories ==
    {"tables", "views", "warehouses", "roles", "users", "databases",
     "queryHistory"}

\* what the seven queries of the startup may do
StartupOutcomes ==
    [tables : {Rejects, Resolves(<<Table1>>), Resolves(<<Table1, Table2>>)},
     views : {Rejects, Resolves(<<View1>>)},
     warehouses : {Rejects, Resolves(<<Warehouse1>>)},
     roles : {Rejects, Resolves(<<Role1>>)},
     users : {Rejects, Resolves(<<User1>>)},
     databases : {Rejects, Resolves(<<Database1>>)},
     queryHistory : {Rejects, Resolves(<<Query1>>)}]

\* onInitialized from its start to `new SessionContextManager()`, or to its
\* catch block
Populate(o) ==
    LET r == FetchAll(o)
    IN  /\ init = "none"
        /\ op.kind # "startup"
        /\ IF AllRejects(r)
           THEN /\ UNCHANGED <<init, cacheVars, catalogVars>>
                /\ op' = [kind |-> "startup", outcomes |-> o, caught |-> TRUE]
           ELSE /\ SetCache(LoadTables(Cache, r.tables.rows, <<>>))
                /\ views' = LoadViews(views, r.views.rows)
                /\ warehouses' = LoadWarehouses(warehouses, r.warehouses.rows)
                /\ roles' = LoadRoles(roles, r.roles.rows)
                /\ users' = LoadUsers(users, r.users.rows)
                /\ databases' = LoadDatabases(databases, r.databases.rows)
                /\ queryHistory' =
                      LoadQueryHistory(queryHistory, r.queryHistory.rows)
                /\ init' = "created"
                /\ op' = [kind |-> "startup", outcomes |-> o, caught |-> FALSE]
        /\ UNCHANGED <<globalContext, contexts, docs, now, cacheHistVars,
                       ddlVars>>

StartupInit == SessionInit /\ CacheIdle /\ CatalogIdle

StartupNext ==
    \/ \E o \in StartupOutcomes : Populate(o)
    \/ \E outcome \in QueryOutcomes : InitializeGlobalContext(outcome)

StartupSpec == StartupInit /\ [][StartupNext]_vars

-----------------------------------------------------------------------------
(* Claims about the startup *)

\* the entities the cache holds of a category
Loaded(category) ==
    CASE category = "tables" -> {tables[i].value.info : i \in 1..Len(tables)}
      [] category = "views" -> Range(MapValues(views))
      [] category = "warehouses" -> Range(MapValues(warehouses))
      [] category = "roles" -> Range(MapValues(roles))
      [] category = "users" -> Range(MapValues(users))
      [] category = "databases" -> Range(MapValues(databases))
      [] category = "queryHistory" -> Range(queryHistory)

\* C19: when the fetch of exactly one category fails during the startup,
\* that category is left empty, every other category holds the entities
\* fetched for it, and the startup goes on to the initialized state.
C19_FailureIsolated ==
    op.kind = "startup" =>
        \A k \in Categories :
            (/\ op.outcomes[k].throws
             /\ \A j \in Categories \ {k} : ~op.outcomes[j].throws)
            => /\ init = "created"
               /\ ~op.caught
               /\ Loaded(k) = {}
               /\ \A j \in Categories \ {k} :
                     Loaded(j) = Range(op.outcomes[j].rows)

-----------------------------------------------------------------------------
(* Claim about the fallback of initializeGlobalContext *)

\* a global record that is set and holds null in all four fields
AllNullGlobal(g) == g # NoGlobal /\ SeedOf(g) = <<Null, Null, Null, Null>>

\* a record for uri with null in all four fields
AllNullContext(uri, t) ==
    [uri |-> uri, database |-> Null, schema |-> Null, warehouse |-> Null,
     role |-> Null, lastUpdated |-> t]

-----------------------------------------------------------------------------
(* Regular expressions of parseContext (sql-parser.ts) *)

\* the literal lit (given in lower case) stands in s at position i
LitAt(s, i, lit) ==
    /\ i >= 1
    /\ i + Len(lit) - 1 <= Len(s)
    /\ SubSeq(s, i, i + Len(lit) - 1) = lit

\* \b holds in s before position i
WordBoundary(s, i) ==
    LET before == i > 1 /\ i - 1 <= Len(s) /\ IsWordChar(s[i - 1])
        after == i >= 1 /\ i <= Len(s) /\ IsWordChar(s[i])
    IN  before # after

\* /\b<word>\b/.test(s)
HasWord(s, word) ==
    \E i \in 1..Len(s) :
        /\ LitAt(s, i, word)
        /\ WordBoundary(s, i)
        /\ WordBoundary(s, i + Len(word))

\* String.prototype.lastIndexOf, as a position from 1 on; 0 when absent
LastIndexOf(s, part) ==
    LET hits == {i \in 1..Len(s) : LitAt(s, i, part)}
    IN  IF hits = {} THEN 0 ELSE CHOOSE i \in hits : \A j \in hits : j <= i

\* /<first>\s+<second>/.test(s)
HasTwoWords(s, first, second) ==
    \E i \in 1..Len(s) :
        /\ LitAt(s, i, first)
        /\ LET e == SpanEnd(s, i + Len(first), "s")
           IN  e > i + Len(first) /\ LitAt(s, e, second)

LitFrom == <<"f","r","o","m">>
LitJoin == <<"j","o","i","n">>
LitAs == <<"a","s">>
LitOn == <<"o","n">>
LitWhere == <<"w","h","e","r","e">>
LitSelect == <<"s","e","l","e","c","t">>
LitGroup == <<"g","r","o","u","p">>
LitOrder == <<"o","r","d","e","r">>
LitBy == <<"b","y">>
LitHaving == <<"h","a","v","i","n","g">>
LitLeft == <<"l","e","f","t">>
LitRight == <<"r","i","g","h","t">>
LitInner == <<"i","n","n","e","r">>
LitOuter == <<"o","u","t","e","r">>

\* the match of /\b<kw>\s+([\w.]+)(?:\s+(?:as\s+)?(\w+))?/ at position i of s:
\* [found, tableName, alias, end], alias being Null when group 2 took no part
TableMatchAt(s, i, kw) ==
    LET p1 == i + Len(kw)
        e1 == SpanEnd(s, p1, "s")
        e2 == SpanEnd(s, e1, "w.")
        e3 == SpanEnd(s, e2, "s")
        p4 == e3 + Len(LitAs)
        e4 == SpanEnd(s, p4, "s")
        e5 == SpanEnd(s, e4, "w")
        e6 == SpanEnd(s, e3, "w")
        found == /\ WordBoundary(s, i)
                 /\ LitAt(s, i, kw)
                 /\ e1 > p1
                 /\ e2 > e1
        withAs == e3 > e2 /\ LitAt(s, e3, LitAs) /\ e4 > p4 /\ e5 > e4
        bare == e3 > e2 /\ e6 > e3
    IN  IF ~found THEN [found |-> FALSE]
        ELSE IF withAs
        THEN [found |-> TRUE, tableName |-> SubSeq(s, e1, e2 - 1),
              alias |-> Some(SubSeq(s, e4, e5 - 1)), end |-> e5]
        ELSE IF bare
        THEN [found |-> TRUE, tableName |-> SubSeq(s, e1, e2 - 1),
              alias |-> Some(SubSeq(s, e3, e6 - 1)), end |-> e6]
        ELSE [found |-> TRUE, tableName |-> SubSeq(s, e1, e2 - 1),
              alias |-> Null, end |-> e2]

\* the matches the loop `while ((match = pattern.exec(textLower)) !== null)`
\* sees from lastIndex = start - 1 on
RECURSIVE ExecAll(_, _, _)
ExecAll(s, start, kw) ==
    LET hits == {i \in start..Len(s) : TableMatchAt(s, i, kw).found}
    IN  IF hits = {} THEN <<>>
        ELSE LET i == CHOOSE k \in hits : \A j \in hits : k <= j
                 m == TableMatchAt(s, i, kw)
             IN  <<m>> \o ExecAll(s, m.end, kw)

-----------------------------------------------------------------------------
(* extractTablesAndAliases, extractCurrentWord, findPreviousKeyword and
   parseContext (sql-parser.ts) *)

\* the words the FROM loop refuses as an alias
FromRefused == {LitWhere, LitJoin, LitLeft, LitRight, LitInner, LitOuter}

\* the words the JOIN loop refuses as an alias
JoinRefused == {LitOn} \cup FromRefused

\* the body of either loop, run over the matches ms: tables.push(tableName)
\* and, for an alias that is not refused, aliases.set and tables.push(alias)
RECURSIVE Collect(_, _, _)
Collect(acc, ms, refused) ==
    IF ms = <<>> THEN acc
    ELSE LET m == Head(ms)
             pushed == Append(acc.tables, m.tableName)
             next == IF m.alias # Null /\ m.alias[1] \notin refused
                     THEN [tables |-> Append(pushed, m.alias[1]),
                           aliases |-> MapSet(acc.aliases, m.alias[1],
                                              m.tableName)]
                     ELSE [tables |-> pushed, aliases |-> acc.aliases]
         IN  Collect(next, Tail(ms), refused)

\* extractTablesAndAliases(text)
ExtractTablesAndAliases(text) ==
    LET textLower == ToLowerCase(text)
        afterFrom == Collect([tables |-> <<>>, aliases |-> <<>>],
                             ExecAll(textLower, 1, LitFrom), FromRefused)
    IN  Collect(afterFrom, ExecAll(textLower, 1, LitJoin), JoinRefused)

\* the start of the run of [\w.] that ends s
WordStart(s) ==
    CHOOSE j \in 1..(Len(s) + 1) :
        /\ \A k \in j..Len(s) : IsWordOrDot(s[k])
        /\ j = 1 \/ ~IsWordOrDot(s[j - 1])

\* extractCurrentWord(text, position)
ExtractCurrentWord(text, position) ==
    LET before == SubSeq(text, 1, position)
        after == SubSeq(text, position + 1, Len(text))
        beforePart == SubSeq(before, WordStart(before), Len(before))
        afterPart == SubSeq(after, 1, SpanEnd(after, 1, "w.") - 1)
    IN  beforePart \o afterPart

\* the keywords of findPreviousKeyword
PreviousKeywords ==
    {LitSelect, LitFrom, LitWhere, LitJoin, LitInner, LitLeft, LitRight,
     LitOuter, LitOn, LitGroup, LitBy, LitOrder, LitHaving, LitAs,
     <<"a","n","d">>, <<"o","r">>}

\* findPreviousKeyword(text): the last of the words between white space that
\* is a keyword, Null when there is none
FindPreviousKeyword(text) ==
    LET s == ToLowerCase(text)
        IsEdge(k) == k < 1 \/ k > Len(s) \/ IsSpace(s[k])
        hits == {i \in 1..Len(s) :
                    \E kw \in PreviousKeywords :
                        /\ LitAt(s, i, kw)
                        /\ IsEdge(i - 1)
                        /\ IsEdge(i + Len(kw))}
    IN  IF hits = {} THEN Null
        ELSE LET i == CHOOSE k \in hits : \A j \in hits : j <= k
                 kw == CHOOSE w \in PreviousKeywords :
                           LitAt(s, i, w) /\ IsEdge(i + Len(w))
             IN  Some(kw)

\* beforeCursor.match(/(\w+)\.\s*$/i): <<>> for null, else <<group 1>>
MatchTrailingDot(s) ==
    LET e == CHOOSE j \in 0..Len(s) :
                 /\ \A k \in (j + 1)..Len(s) : IsSpace(s[k])
                 /\ j = 0 \/ ~IsSpace(s[j])
    IN  IF e >= 2 /\ s[e] = "." /\ IsWordChar(s[e - 1])
        THEN LET b == CHOOSE j \in 1..(e - 1) :
                          /\ \A k \in j..(e - 1) : IsWordChar(s[k])
                          /\ j = 1 \/ ~IsWordChar(s[j - 1])
             IN  <<SubSeq(s, b, e - 1)>>
        ELSE <<>>

\* /\b(from|join)\s+[^,;\s]*$/i.test(s)
MatchTrailingFromJoin(s) ==
    \E i \in 1..Len(s) :
        /\ WordBoundary(s, i)
        /\ LitAt(s, i, LitFrom) \/ LitAt(s, i, LitJoin)
        /\ LET e == SpanEnd(s, i + 4, "s")
           IN  /\ e > i + 4
               /\ \A k \in e..Len(s) : s[k] \notin {",", ";"} /\ ~IsSpace(s[k])

\* /(group\s+by|order\s+by|having)/i.test(s)
HasGroupOrderHaving(s) ==
    \/ HasTwoWords(s, LitGroup, LitBy)
    \/ HasTwoWords(s, LitOrder, LitBy)
    \/ \E i \in 1..Len(s) : LitAt(s, i, LitHaving)

\* textLower.substring(textLower.lastIndexOf('where'))
FromLastWhere(s) ==
    IF LastIndexOf(s, LitWhere) = 0 THEN s
    ELSE SubSeq(s, LastIndexOf(s, LitWhere), Len(s))

\* the context parseContext decides for the text before the cursor
ContextOf(beforeCursor, tablesInScope, aliases) ==
    LET textLower == ToLowerCase(beforeCursor)
        dot == MatchTrailingDot(beforeCursor)
    IN  IF dot # <<>>
        THEN LET identifier == ToLowerCase(dot[1])
             IN  IF MapHas(aliases, identifier) THEN "TABLE_DOT"
                 ELSE IF \E k \in 1..Len(tablesInScope) :
                            Includes(ToLowerCase(tablesInScope[k]), identifier)
                 THEN "TABLE_DOT"
                 ELSE "SCHEMA_DOT"
        ELSE IF MatchTrailingFromJoin(textLower) THEN "FROM_CLAUSE"
        ELSE IF /\ HasWord(textLower, LitWhere)
                /\ ~HasGroupOrderHaving(FromLastWhere(textLower))
        THEN "WHERE_CLAUSE"
        ELSE IF HasWord(textLower, LitSelect) /\ ~HasWord(textLower, LitFrom)
        THEN "SELECT_LIST"
        ELSE "GENERAL"

\* parseContext(text, position)
ParseContext(text, position) ==
    LET beforeCursor == SubSeq(text, 1, position)
        extracted == ExtractTablesAndAliases(beforeCursor)
    IN  [context |-> ContextOf(beforeCursor, extracted.tables,
                               extracted.aliases),
         currentWord |-> ExtractCurrentWord(text, position),
         tablesInScope |-> extracted.tables,
         aliases |-> extracted.aliases,
         previousKeyword |-> FindPreviousKeyword(beforeCursor)]

-----------------------------------------------------------------------------
(* Inputs of the classifier model: documents as sequences of segments, a
   segment being literal text or a clause `<kw> <table> [AS] <alias>` *)

\* the text of one segment
SegText(seg) ==
    IF seg.kind = "lit" THEN seg.chars
    ELSE seg.kw \o <<" ">> \o seg.table \o <<" ">>
         \o (IF seg.as THEN <<"A","S"," ">> ELSE <<>>) \o seg.alias

\* the text of a document
RECURSIVE Render(_)
Render(segs) ==
    IF segs = <<>> THEN <<>> ELSE SegText(Head(segs)) \o Render(Tail(segs))

\* the document `SELECT o. FROM orders o`
DocAliasDot ==
    <<[kind |-> "lit", chars |-> <<"S","E","L","E","C","T"," ","o","."," ">>],
      [kind |-> "clause", kw |-> <<"F","R","O","M">>, table |-> <<"o","r","d","e","r","s">>,
      as |-> FALSE, alias |-> <<"o">>]>>

\* the document `SELECT * FROM Orders O`
DocMixedCase ==
    <<[kind |-> "lit", chars |-> <<"S","E","L","E","C","T"," ","*"," ">>],
      [kind |-> "clause", kw |-> <<"F","R","O","M">>, table |-> <<"O","r","d","e","r","s">>,
      as |-> FALSE, alias |-> <<"O">>]>>

\* the document `SELECT * FROM t ON t.a`
DocFromOn ==
    <<[kind |-> "lit", chars |-> <<"S","E","L","E","C","T"," ","*"," ","F","R","O","M"," ","t"," ","O","N"," ","t",".","a">>]>>

\* the document `SELECT * FROM orders o JOIN items AS i ON o.a = i.`
DocJoin ==
    <<[kind |-> "lit", chars |-> <<"S","E","L","E","C","T"," ","*"," ">>],
      [kind |-> "clause", kw |-> <<"F","R","O","M">>, table |-> <<"o","r","d","e","r","s">>,
      as |-> FALSE, alias |-> <<"o">>],
      [kind |-> "lit", chars |-> <<" ">>],
      [kind |-> "clause", kw |-> <<"J","O","I","N">>, table |-> <<"i","t","e","m","s">>,
      as |-> TRUE, alias |-> <<"i">>],
      [kind |-> "lit", chars |-> <<" ","O","N"," ","o",".","a"," ","="," ","i",".">>]>>

\* the document `SELECT a FROM t WHERE a GROUP BY a`
DocWhere ==
    <<[kind |-> "lit", chars |-> <<"S","E","L","E","C","T"," ","a"," ","F","R","O","M"," ","t"," ","W","H","E","R","E"," ","a"," ","G","R","O","U","P"," ","B","Y"," ","a">>]>>

\* the document `SELECT a FROM t; SELECT `
DocSecond ==
    <<[kind |-> "lit", chars |-> <<"S","E","L","E","C","T"," ","a"," ","F","R","O","M"," ","t",";"," ","S","E","L","E","C","T"," ">>]>>

\* the document `SELECT * FROM a x; SELECT * FROM b x`
DocReuse ==
    <<[kind |-> "lit", chars |-> <<"S","E","L","E","C","T"," ","*"," ">>],
      [kind |-> "clause", kw |-> <<"F","R","O","M">>, table |-> <<"a">>,
      as |-> FALSE, alias |-> <<"x">>],
      [kind |-> "lit", chars |-> <<";"," ","S","E","L","E","C","T"," ","*"," ">>],
      [kind |-> "clause", kw |-> <<"F","R","O","M">>, table |-> <<"b">>,
      as |-> FALSE, alias |-> <<"x">>]>>

\* the document `SELECT * FROM S.`
DocSchemaDot ==
    <<[kind |-> "lit", chars |-> <<"S","E","L","E","C","T"," ","*"," ","F","R","O","M"," ","S",".">>]>>

\* the document `USE WAREHOUSE `
DocUseWarehouse ==
    <<[kind |-> "lit", chars |-> <<"U","S","E"," ","W","A","R","E","H","O","U","S","E"," ">>]>>

\* the document `USE ROLE `
DocUseRole ==
    <<[kind |-> "lit", chars |-> <<"U","S","E"," ","R","O","L","E"," ">>]>>

\* the document `USE DATABASE `
DocUseDatabase ==
    <<[kind |-> "lit", chars |-> <<"U","S","E"," ","D","A","T","A","B","A","S","E"," ">>]>>

\* the document `GRANT SELECT ON t TO ROLE `
DocGrantRole ==
    <<[kind |-> "lit", chars |-> <<"G","R","A","N","T"," ","S","E","L","E","C","T"," ","O","N"," ","t"," ","T","O"," ","R","O","L","E"," ">>]>>

\* the document `GRANT SELECT ON t TO USER `
DocGrantUser ==
    <<[kind |-> "lit", chars |-> <<"G","R","A","N","T"," ","S","E","L","E","C","T"," ","O","N"," ","t"," ","T","O"," ","U","S","E","R"," ">>]>>

Documents ==
    {DocAliasDot, DocMixedCase, DocFromOn, DocJoin,
     DocWhere, DocSecond, DocReuse, DocSchemaDot,
     DocUseWarehouse, DocUseRole, DocUseDatabase, DocGrantRole,
     DocGrantUser}
\* parseContext for every document and cursor position
ParsedContexts ==
    [d \in Documents |->
        [p \in 0..Len(Render(d)) |-> ParseContext(Render(d), p)]]

-----------------------------------------------------------------------------
(* The classifier: onCompletion's call of parseContext *)

\* provideCompletions calls parseContext(text, offset)
DoParseContext(d, position) ==
    /\ op' = [kind |-> "parseContext", doc |-> d, position |-> position,
              parsed |-> ParsedContexts[d][position]]
    /\ UNCHANGED <<sessionVars, now, cacheVars, cacheHistVars, catalogVars,
                   ddlVars>>

ClassifyInit == SessionInit /\ CacheIdle /\ CatalogIdle

ClassifyNext ==
    \E d \in Documents : \E position \in 0..Len(Render(d)) :
        DoParseContext(d, position)

ClassifySpec == ClassifyInit /\ [][ClassifyNext]_vars

\* the sources the switch of provideCompletions draws from for a context
CompletionSources(context) ==
    CASE context = "FROM_CLAUSE" -> <<"tables", "schemas">>
      [] context = "TABLE_DOT" -> <<"columnsOfTable">>
      [] context = "SCHEMA_DOT" -> <<"tablesOfSchema">>
      [] context = "USE_WAREHOUSE" -> <<"warehouses">>
      [] context = "USE_ROLE" -> <<"roles">>
      [] context = "USE_DATABASE" -> <<"databases">>
      [] context = "GRANT_TO_ROLE" -> <<"roles">>
      [] context = "GRANT_TO_USER" -> <<"users">>
      [] context \in {"SELECT_LIST", "WHERE_CLAUSE"} -> <<"columns", "keywords">>
      [] OTHER -> <<"keywords", "tables", "schemas">>

-----------------------------------------------------------------------------
(* Claims about the classifier *)

\* the text before the cursor of the last parseContext call
BeforeCursor == SubSeq(Render(op.doc), 1, op.position)

\* C21: for the text `SELECT o. FROM orders o` with the cursor right after
\* the dot, parseContext returns the context table-dot, o being the alias of
\* orders.
C21_AliasDotIsTableDot ==
    (/\ op.kind = "parseContext"
     /\ op.doc = DocAliasDot
     /\ BeforeCursor = <<"S","E","L","E","C","T"," ","o",".">>) =>
        op.parsed.context = "TABLE_DOT"

\* C22: in the descriptor parseContext returns, every key of the alias map is
\* in lower case and every value is a table identifier as the text before the
\* cursor spells it, letter case included.
C22_AliasValuesAsWritten ==
    op.kind = "parseContext" =>
        \A k \in 1..Len(op.parsed.aliases) :
            /\ op.parsed.aliases[k].key = ToLowerCase(op.parsed.aliases[k].key)
            /\ Includes(BeforeCursor, op.parsed.aliases[k].value)

\* the reserved clause keywords
ReservedKeywords ==
    {LitWhere, LitOn, LitJoin, LitLeft, LitRight, LitInner, LitOuter}

\* C23: whatever the text and the cursor position, no reserved clause keyword
\* is a key of the alias map or an entry of tablesInScope (no document of the
\* model names a table by such a keyword, so an entry could only be an alias).
C23_NoReservedAlias ==
    op.kind = "parseContext" =>
        /\ \A k \in 1..Len(op.parsed.aliases) :
              ToLowerCase(op.parsed.aliases[k].key) \notin ReservedKeywords
        /\ \A k \in 1..Len(op.parsed.tablesInScope) :
              ToLowerCase(op.parsed.tablesInScope[k]) \notin ReservedKeywords

\* the offset at which segment k of a document ends
SegEnd(segs, k) == Len(Render(SubSeq(segs, 1, k)))

\* the clauses `<kw> <table> [AS] <alias>` of the last call's document that
\* end before the cursor
ClausesBeforeCursor ==
    {k \in 1..Len(op.doc) :
        op.doc[k].kind = "clause" /\ SegEnd(op.doc, k) <= op.position}

\* C24: for every clause `FROM <table> <alias>` or `JOIN <table> <alias>`,
\* with or without AS, that stands before the cursor, tablesInScope holds the
\* table identifier and the alias, and the alias map maps the alias (in lower
\* case) to that table identifier; this for each of several clauses.
C24_ClausesAccumulate ==
    op.kind = "parseContext" =>
        \A k \in ClausesBeforeCursor :
            /\ op.doc[k].table \in Range(op.parsed.tablesInScope)
            /\ ToLowerCase(op.doc[k].alias) \in Range(op.parsed.tablesInScope)
            /\ MapHas(op.parsed.aliases, ToLowerCase(op.doc[k].alias))
            /\ MapGet(op.parsed.aliases, ToLowerCase(op.doc[k].alias))
                  = op.doc[k].table

\* some SELECT of s has no FROM after it
SelectWithoutLaterFrom(s) ==
    \E i \in 1..Len(s) :
        /\ LitAt(s, i, LitSelect)
        /\ WordBoundary(s, i)
        /\ WordBoundary(s, i + Len(LitSelect))
        /\ ~HasWord(SubSeq(s, i, Len(s)), LitFrom)

\* the context kind the fixed precedence gives for the text before the cursor
PrecedenceContext(before, parsed) ==
    LET s == ToLowerCase(before)
        dot == MatchTrailingDot(before)
    IN  IF dot # <<>>
        THEN IF \/ MapHas(parsed.aliases, ToLowerCase(dot[1]))
                \/ \E k \in 1..Len(parsed.tablesInScope) :
                      Includes(ToLowerCase(parsed.tablesInScope[k]),
                               ToLowerCase(dot[1]))
             THEN "TABLE_DOT" ELSE "SCHEMA_DOT"
        ELSE IF MatchTrailingFromJoin(s) THEN "FROM_CLAUSE"
        ELSE IF HasWord(s, LitWhere) /\ ~HasGroupOrderHaving(FromLastWhere(s))
        THEN "WHERE_CLAUSE"
        ELSE IF SelectWithoutLaterFrom(s) THEN "SELECT_LIST"
        ELSE "GENERAL"

\* C25: parseContext decides the context by the precedence (1) trailing
\* `<identifier>.`: table-dot for a known alias or a substring of an in-scope
\* table, else schema-dot; (2) trailing FROM or JOIN with a partial
\* identifier: from-clause; (3) WHERE not followed by GROUP BY, ORDER BY or
\* HAVING: where-clause; (4) SELECT without a later FROM: select-list; (5)
\* general; and `SELECT * FROM ` with the cursor at its end gives from-clause
\* with an empty currentWord.
C25_Precedence ==
    op.kind = "parseContext" =>
        /\ op.parsed.context = PrecedenceContext(BeforeCursor, op.parsed)
        /\ (/\ BeforeCursor = <<"S","E","L","E","C","T"," ","*"," ",
                                "F","R","O","M"," ">>
            /\ op.position = Len(Render(op.doc))) =>
               /\ op.parsed.context = "FROM_CLAUSE"
               /\ op.parsed.currentWord = <<>>

\* the specialized context of a text before the cursor, "" when it has none
SpecializedContext(before) ==
    LET s == ToUpperCase(before)
    IN  IF EndsWith(s, <<"U","S","E"," ">> \o KwWarehouse \o <<" ">>)
        THEN "USE_WAREHOUSE"
        ELSE IF EndsWith(s, <<"U","S","E"," ">> \o KwRole \o <<" ">>)
        THEN "USE_ROLE"
        ELSE IF EndsWith(s, <<"U","S","E"," ">> \o KwDatabase \o <<" ">>)
        THEN "USE_DATABASE"
        ELSE IF /\ StartsWith(s, <<"G","R","A","N","T"," ">>)
                /\ EndsWith(s, <<" ","T","O"," ","R","O","L","E"," ">>)
        THEN "GRANT_TO_ROLE"
        ELSE IF /\ StartsWith(s, <<"G","R","A","N","T"," ">>)
                /\ EndsWith(s, <<" ","T","O"," ","U","S","E","R"," ">>)
        THEN "GRANT_TO_USER"
        ELSE ""

\* C26: a text that ends before the cursor with `USE WAREHOUSE `, `USE ROLE `,
\* `USE DATABASE `, `GRANT ... TO ROLE ` or `GRANT ... TO USER ` gets the
\* context use-warehouse, use-role, use-database, grant-to-role or
\* grant-to-user, and completion draws from the warehouses, roles, databases
\* or users.
C26_SpecializedContexts ==
    (op.kind = "parseContext" /\ SpecializedContext(BeforeCursor) # "") =>
        /\ op.parsed.context = SpecializedContext(BeforeCursor)
        /\ CompletionSources(op.parsed.context) \in
              {<<"warehouses">>, <<"roles">>, <<"databases">>, <<"users">>}

-----------------------------------------------------------------------------
(* Table completion ranked by the session context (completion.ts) *)

\* the limit getTableCompletionsWithContext passes to searchTables
ContextLimit == 100

\* a.toUpperCase() === b.toUpperCase()
SameUpper(a, b) == ToUpperCase(a) = ToUpperCase(b)

\* `context.database`, `context.schema` as a condition: null and '' are falsy
Truthy(v) == v # Null /\ v # Some(<<>>)

\* the priority group the loop puts a table in: "0" current schema, "1"
\* current database, "2" others
GroupOf(table, context) ==
    IF /\ Truthy(context.database)
       /\ Truthy(context.schema)
       /\ SameUpper(table.info.catalog, context.database[1])
       /\ SameUpper(table.info.schema, context.schema[1])
    THEN "0"
    ELSE IF /\ Truthy(context.database)
            /\ SameUpper(table.info.catalog, context.database[1])
    THEN "1"
    ELSE "2"

\* the completion item of a table
TableItem(table, group) ==
    [label |-> table.info.name,
     detail |-> JoinDot(<<table.info.catalog, table.info.schema,
                          table.info.name>>),
     sortText |-> <<group, "_">> \o table.info.name,
     insertText |-> table.info.name]

\* the items pushed to the list of one group, in the order of allTables
RECURSIVE ItemsOfGroup(_, _, _)
ItemsOfGroup(allTables, context, group) ==
    IF allTables = <<>> THEN <<>>
    ELSE (IF GroupOf(Head(allTables), context) = group
          THEN <<TableItem(Head(allTables), group)>> ELSE <<>>)
         \o ItemsOfGroup(Tail(allTables), context, group)

\* a faulty variant of getTableCompletionsWithContext that returns the
\* current database's tables before the current schema's
GetTableCompletionsDatabaseFirst(c, prefix, context) ==
    LET allTables == SearchTables(c, prefix, ContextLimit)
    IN  ItemsOfGroup(allTables, context, "1")
        \o ItemsOfGroup(allTables, context, "0")
        \o ItemsOfGroup(allTables, context, "2")

\* getTableCompletionsWithContext(prefix, context)
GetTableCompletionsWithContext(c, prefix, context) ==
    LET allTables == SearchTables(c, prefix, ContextLimit)
    IN  ItemsOfGroup(allTables, context, "0")
        \o ItemsOfGroup(allTables, context, "1")
        \o ItemsOfGroup(allTables, context, "2")

-----------------------------------------------------------------------------
(* Inputs of the ranking model *)

StrX == <<"X">>
StrT4 == <<"t","4">>

\* a table of another database
Table4 == TableInfo(StrX, StrS, StrT4)

\* the lists loadTables is called with
RankTableLists ==
    {<<Table4, Table2, Table1>>, <<Table2, Table4>>, <<Table3>>}

\* a session record with the given database and schema
ContextWith(database, schema) ==
    [AllNullContext("a.sql", 0) EXCEPT !.database = database,
                                        !.schema = schema]

\* the session records completion is asked with: after USE commands (upper
\* case), seeded from the warehouse session (as the warehouse spells it),
\* with and without database and schema
RankContexts ==
    {ContextWith(d, s) :
        d \in {Null, Some(<<"D","B">>), Some(StrX)},
        s \in {Null, Some(<<"S">>), Some(<<"R">>)}}

\* the prefixes completion is asked with
RankPrefixes == {<<>>, <<"t">>, <<"t","1">>}

-----------------------------------------------------------------------------
(* Ranked completion on a cache that loadTables filled *)

DoTableCompletions(prefix, context) ==
    /\ op' = [kind |-> "tableCompletions", prefix |-> prefix,
              context |-> context,
              found |-> SearchTables(Cache, prefix, ContextLimit),
              items |-> GetTableCompletionsWithContext(Cache, prefix, context)]
    /\ UNCHANGED <<cacheVars, cacheHistVars, catalogVars, ddlVars>>
    /\ UNCHANGED <<sessionVars, now>>

RankInit == SessionInit /\ CacheIdle /\ CatalogIdle

RankNext ==
    \/ \E ts \in RankTableLists : DoLoadTables(ts, <<>>)
    \/ \E prefix \in RankPrefixes, context \in RankContexts :
          DoTableCompletions(prefix, context)

RankSpec == RankInit /\ [][RankNext]_vars

-----------------------------------------------------------------------------
(* Claim about the ranking *)

\* the group the claim gives a table under a session record: 0 when database
\* and schema are those of the record, 1 when the database is, 2 otherwise
\* (names compared without regard to letter case)
RankOf(table, context) ==
    IF /\ context.database # Null /\ context.schema # Null
       /\ SameUpper(table.info.catalog, context.database[1])
       /\ SameUpper(table.info.schema, context.schema[1])
    THEN 0
    ELSE IF /\ context.database # Null
            /\ SameUpper(table.info.catalog, context.database[1])
    THEN 1
    ELSE 2

\* the position in the search result of the table an item stands for
FoundAt(item) ==
    CHOOSE k \in 1..Len(op.found) :
        JoinDot(<<op.found[k].info.catalog, op.found[k].info.schema,
                  op.found[k].info.name>>) = item.detail

\* C27: the items of table completion with a session record are the search
\* result reordered, none added and none dropped: first the tables of the
\* record's database and schema, then the other tables of its database, then
\* the rest, each group in search order; while the record's schema is null no
\* table counts as of the current schema.
C27_RankedReordering ==
    op.kind = "tableCompletions" =>
        /\ Len(op.items) = Len(op.found)
        /\ \A k \in 1..Len(op.found) :
              \E i \in 1..Len(op.items) : FoundAt(op.items[i]) = k
        /\ \A i, j \in 1..Len(op.items) :
              i < j =>
                LET ri == RankOf(op.found[FoundAt(op.items[i])], op.context)
                    rj == RankOf(op.found[FoundAt(op.items[j])], op.context)
                IN  /\ ri <= rj
                    /\ ri = rj => FoundAt(op.items[i]) < FoundAt(op.items[j])
        /\ op.context.schema = Null =>
              \A i \in 1..Len(op.items) : op.items[i].sortText[1] # "0"

\* C27 happens: with database and schema set, a table of the current schema
\* that the search found last stands first, before a table of the current
\* database and a table of another database
C27_Witness ==
    /\ op.kind = "tableCompletions"
    /\ Len(op.items) = 3
    /\ op.items[1].sortText[1] = "0"
    /\ op.items[2].sortText[1] = "1"
    /\ op.items[3].sortText[1] = "2"
    /\ FoundAt(op.items[1]) = 3

-----------------------------------------------------------------------------
(* searchColumns (schema-cache.ts) *)

\* the test of searchColumns on one entry of the column map; tableLookup is
\* Null without a table context
ColumnMatches(entry, lowerPrefix, tableLookup) ==
    /\ tableLookup # Null =>
          ToLowerCase(ColumnTableKey(entry.value.info)) \in tableLookup[1]
    /\ StartsWith(ToLowerCase(entry.value.info.columnName), lowerPrefix)

\* either loop of searchColumns from entry i on, with its break
RECURSIVE SearchColumnsFrom(_, _, _, _, _, _)
SearchColumnsFrom(c, i, lowerPrefix, tableLookup, limit, results) ==
    IF i > Len(c.columns) THEN results
    ELSE IF ColumnMatches(c.columns[i], lowerPrefix, tableLookup)
    THEN LET pushed == Append(results, c.columns[i].value)
         IN  IF Len(pushed) >= limit THEN pushed
             ELSE SearchColumnsFrom(c, i + 1, lowerPrefix, tableLookup, limit,
                                    pushed)
    ELSE SearchColumnsFrom(c, i + 1, lowerPrefix, tableLookup, limit, results)

\* searchColumns(prefix, tableContext, limit); tableContext is Null when the
\* caller passes none
SearchColumns(c, prefix, tableContext, limit) ==
    LET tableLookup ==
            IF tableContext # Null /\ Len(tableContext[1]) > 0
            THEN Some({ToLowerCase(tableContext[1][k]) :
                          k \in 1..Len(tableContext[1])})
            ELSE Null
    IN  SearchColumnsFrom(c, 1, ToLowerCase(prefix), tableLookup, limit, <<>>)

-----------------------------------------------------------------------------
(* Inputs of the column search model *)

Column3a == ColumnInfo(StrDb, StrR, StrT1, <<"a">>, "NUMBER")

\* the table lists loadTables is called with
ColumnTableLists == {<<Table1>>, <<Table3, Table1>>, <<Table2>>}

\* the column lists loadColumns is called with
ColumnSearchLists == {<<Column1a, Column1b>>, <<Column3a>>}

\* the table contexts searchColumns is called with: none, empty, and
\* tablesInScope as parseContext gives it (lower case) for `FROM t1`,
\* `FROM s.t1`, `FROM db.s.t1`, `FROM t2` and `FROM t1 x`
TableContexts ==
    {Null, Some(<<>>),
     Some(<<<<"t","1">>>>),
     Some(<<<<"s",".","t","1">>>>),
     Some(<<<<"d","b",".","s",".","t","1">>>>),
     Some(<<<<"t","2">>>>),
     Some(<<<<"t","1">>, <<"x">>>>)}

\* the prefixes searchColumns is called with
ColumnPrefixes == {<<>>, <<"A">>, <<"b">>}

\* the limits searchColumns is called with
ColumnLimits == {1, DefaultLimit}

-----------------------------------------------------------------------------
(* Column search on a cache that loadTables and loadColumns filled *)

DoSearchColumns(prefix, tableContext, limit) ==
    /\ op' = [kind |-> "searchColumns", prefix |-> prefix,
              tableContext |-> tableContext, limit |-> limit,
              result |-> SearchColumns(Cache, prefix, tableContext, limit)]
    /\ UNCHANGED <<cacheVars, cacheHistVars, catalogVars, ddlVars>>
    /\ UNCHANGED <<sessionVars, now>>

ColumnSearchInit == SessionInit /\ CacheIdle /\ CatalogIdle

ColumnSearchNext ==
    \/ \E ts \in ColumnTableLists : DoLoadTables(ts, <<>>)
    \/ \E cols \in ColumnSearchLists : DoLoadColumns(cols)
    \/ \E prefix \in ColumnPrefixes, tableContext \in TableContexts,
          limit \in ColumnLimits :
          DoSearchColumns(prefix, tableContext, limit)

ColumnSearchSpec == ColumnSearchInit /\ [][ColumnSearchNext]_vars

-----------------------------------------------------------------------------
(* Claim about column search in a table context *)

\* the columns of the column map that belong to the table with the qualified
\* name q and whose name starts with prefix, in map order
ColumnsOf(q, prefix) ==
    LET Test(entry) ==
            /\ ColumnTableKey(entry.info) = q
            /\ StartsWith(ToLowerCase(entry.info.columnName),
                          ToLowerCase(prefix))
    IN  SelectSeq(MapValues(columns), Test)

\* the first n elements of a sequence
Take(seq, n) == SubSeq(seq, 1, IF Len(seq) < n THEN Len(seq) ELSE n)

\* the identifier t names the table with the qualified name q: q is t or ends
\* with '.' + t, without regard to letter case
Identifies(t, q) ==
    \/ ToUpperCase(t) = q
    \/ EndsWith(q, <<".">> \o ToUpperCase(t))

\* C28: searchColumns with a table context returns a column only if one of
\* the context's identifiers names the column's table; and for a context of one identifier t that getTable resolves to a table
\* T, it returns the columns of T in the column map whose name starts with
\* the prefix, up to the limit.
C28_ColumnsOfResolvedTable ==
    (/\ op.kind = "searchColumns"
     /\ op.tableContext # Null
     /\ Len(op.tableContext[1]) > 0) =>
        /\ \A k \in 1..Len(op.result) :
              \E i \in 1..Len(op.tableContext[1]) :
                 Identifies(op.tableContext[1][i],
                            ColumnTableKey(op.result[k].info))
        /\ (/\ Len(op.tableContext[1]) = 1
            /\ GetTable(Cache, op.tableContext[1][1]) # Null) =>
              op.result =
                 Take(ColumnsOf(
                         GetTable(Cache, op.tableContext[1][1])[1].qualifiedName,
                         op.prefix),
                      op.limit)

-----------------------------------------------------------------------------
(* Claims about qualified lookups and about the name indexes *)

\* C29: getTable called with a schema-qualified or fully qualified name
\* returns only a table whose qualified name is that name or ends with '.'
\* and that name, without regard to letter case: never a table of another
\* schema or database than the one named.
C29_QualifiedLookupStaysInSchema ==
    (/\ op.kind = "getTable"
     /\ Len(SplitDot(op.name)) >= 2
     /\ op.result # Null) =>
        Identifies(op.name, op.result[1].qualifiedName)

\* no element of a sequence stands in it twice
NoDuplicates(seq) ==
    \A i, j \in 1..Len(seq) : seq[i] = seq[j] => i = j

\* C30: in every state of the cache, each list of the table-name index and of
\* the column-name index holds no qualified name twice, and every qualified
\* name listed is a key of the table map, respectively of the column map.
C30_IndexesConsistent ==
    /\ \A i \in 1..Len(tableNameIndex) :
          /\ NoDuplicates(tableNameIndex[i].value)
          /\ Range(tableNameIndex[i].value) \subseteq MapKeys(tables)
    /\ \A i \in 1..Len(columnNameIndex) :
          /\ NoDuplicates(columnNameIndex[i].value)
          /\ Range(columnNameIndex[i].value) \subseteq MapKeys(columns)

====
